---- MODULE Spec2Model ----
(***************************************************************************)
(* Model of src/lib/velocity.js: the request executor (executeGraphQL),    *)
(* the compound gate provisioner (the add_pipeline_gate handler) and a     *)
(* one-request tool (get_my_access_key_metadata), run as concurrent        *)
(* invocations against a remote GraphQL endpoint.                          *)
(*                                                                         *)
(* JavaScript values are tagged records, so that undefined, null, strings, *)
(* arrays and objects can be told apart and compared.  A string is a       *)
(* sequence of chunks (each chunk stands for one or more characters; the   *)
(* chunk " " is white space).                                              *)
(***************************************************************************)
EXTENDS Integers, Sequences, FiniteSets, TLC

\* ---------------------------------------------------------------- bounds
NumInv == 2          \* tool invocations that may be in flight together
MaxNameLen == 2      \* longest gateName tried, in chunks
MaxApprovers == 2    \* longest manualApprovers list tried
MaxArgs == 3         \* longest command line tried, in arguments

\* ------------------------------------------------------------- JS values
Undefined == [t |-> "undefined"]
Null == [t |-> "null"]
Str(s) == [t |-> "string", v |-> s]
Bool(b) == [t |-> "boolean", v |-> b]
Num(n) == [t |-> "number", v |-> n]
Arr(e) == [t |-> "array", e |-> e]
Obj(f) == [t |-> "object", f |-> f]

\* o.k for an object o: a missing property reads as undefined
Get(o, k) == IF o.t = "object" /\ k \in DOMAIN o.f THEN o.f[k] ELSE Undefined

\* o.k throws a TypeError exactly when o is undefined or null
CanRead(o) == o.t \notin {"undefined", "null"}

\* JavaScript truthiness: undefined, null, "", 0 and false are falsy; arrays
\* (also empty ones) and objects are truthy
Truthy(v) ==
    /\ v.t \notin {"undefined", "null"}
    /\ (v.t = "string" => v.v # <<>>)
    /\ (v.t = "number" => v.v # 0)
    /\ (v.t = "boolean" => v.v)

\* a || b
OrElse(a, b) == IF Truthy(a) THEN a ELSE b

\* String.prototype.trim
RECURSIVE TrimLeft(_)
TrimLeft(s) == IF s # <<>> /\ Head(s) = " " THEN TrimLeft(Tail(s)) ELSE s

RECURSIVE TrimRight(_)
TrimRight(s) ==
    IF s # <<>> /\ s[Len(s)] = " " THEN TrimRight(SubSeq(s, 1, Len(s) - 1)) ELSE s

Trim(s) == TrimRight(TrimLeft(s))

\* JSON.stringify, given as the JSON tree the receiver parses: a property
\* whose value is undefined is dropped, an undefined array element becomes
\* null; a top-level undefined stays undefined
RECURSIVE Stringify(_)
Stringify(v) ==
    IF v.t = "object"
    THEN Obj([k \in {x \in DOMAIN v.f : v.f[x].t # "undefined"} |-> Stringify(v.f[k])])
    ELSE IF v.t = "array"
    THEN Arr([n \in DOMAIN v.e |->
                 IF v.e[n].t = "undefined" THEN Null ELSE Stringify(v.e[n])])
    ELSE v

\* n characters, used to build distinct identifiers
Unary(n) == [k \in 1 .. n |-> "i"]

\* --------------------------------------------------------- configuration
\* String.prototype.includes for a marker that is one chunk
Includes(s, marker) == \E n \in DOMAIN s : s[n] = marker

\* the credentials tried: an access key, the two session-cookie forms, and
\* two keys that resemble a cookie without holding either marker
Credentials ==
    { <<"key">>,
      <<"VelocitySession=", "v">>,
      <<"x", "SecurityApiSession=", "s">>,
      <<"VelocitySession", "v">>,
      <<"securityapisession=", "s">> }

\* what getConfig returns at startup when the environment holds all three
\* values
StartupConfigs ==
    { [graphqlUrl |-> <<"https://velocity/graphql">>,
       accessToken |-> tok,
       tenantId |-> <<"tenant-1">>] : tok \in Credentials }

\* process.env with all three variables set
Environments ==
    { [VELOCITY_GRAPHQL_URL |-> Str(c.graphqlUrl),
       VELOCITY_ACCESS_TOKEN |-> Str(c.accessToken),
       VELOCITY_TENANT_ID |-> Str(c.tenantId)] : c \in StartupConfigs }

\* process.env with any of the three variables unset
PartialEnvironments ==
    [VELOCITY_GRAPHQL_URL : {Undefined, Str(<<"https://velocity/graphql">>)},
     VELOCITY_ACCESS_TOKEN : {Undefined, Str(<<"key">>)},
     VELOCITY_TENANT_ID : {Undefined, Str(<<"tenant-1">>)}]

\* process.argv.slice(2): the three options, an empty value and a value
ArgTokens ==
    {Str(<<"--url">>), Str(<<"--token">>), Str(<<"--tenant-id">>), Str(<<>>),
     Str(<<"cli">>)}

ArgLists == UNION {[1 .. n -> ArgTokens] : n \in 0 .. MaxArgs}

\* the loop of getConfig over the arguments, two at a time from index i
RECURSIVE ParseArgs(_, _, _)
ParseArgs(args, i, parsed) ==
    IF i > Len(args) THEN parsed
    ELSE LET key == args[i]
             value == IF i + 1 <= Len(args) THEN args[i + 1] ELSE Undefined
         IN  ParseArgs(args, i + 2,
                 CASE key = Str(<<"--url">>) -> [parsed EXCEPT !.url = value]
                   [] key = Str(<<"--token">>) -> [parsed EXCEPT !.token = value]
                   [] key = Str(<<"--tenant-id">>) -> [parsed EXCEPT !.tenantId = value]
                   [] OTHER -> parsed)

ConfigurationError(message) == [kind |-> "config", message |-> message]

\* a variant in which the environment variable wins over the argument
GetConfigEnvFirst(args, env) ==
    LET parsed == ParseArgs(args, 1, [url |-> Undefined, token |-> Undefined,
                                      tenantId |-> Undefined])
        graphqlUrl == OrElse(env.VELOCITY_GRAPHQL_URL, parsed.url)
        accessToken == OrElse(env.VELOCITY_ACCESS_TOKEN, parsed.token)
        tenantId == OrElse(env.VELOCITY_TENANT_ID, parsed.tenantId)
    IN  IF ~Truthy(graphqlUrl)
        THEN [threw |-> TRUE, error |-> ConfigurationError("GraphQL URL is required.")]
        ELSE IF ~Truthy(accessToken)
        THEN [threw |-> TRUE, error |-> ConfigurationError("Access token is required.")]
        ELSE IF ~Truthy(tenantId)
        THEN [threw |-> TRUE, error |-> ConfigurationError("Tenant ID is required.")]
        ELSE [threw |-> FALSE,
              value |-> [graphqlUrl |-> graphqlUrl.v, accessToken |-> accessToken.v,
                         tenantId |-> tenantId.v]]

\* a variant that does not require the tenant id: an unset one is empty
GetConfigNoTenantCheck(args, env) ==
    LET parsed == ParseArgs(args, 1, [url |-> Undefined, token |-> Undefined,
                                      tenantId |-> Undefined])
        graphqlUrl == OrElse(parsed.url, env.VELOCITY_GRAPHQL_URL)
        accessToken == OrElse(parsed.token, env.VELOCITY_ACCESS_TOKEN)
        tenantId == OrElse(parsed.tenantId, env.VELOCITY_TENANT_ID)
    IN  IF ~Truthy(graphqlUrl)
        THEN [threw |-> TRUE, error |-> ConfigurationError("GraphQL URL is required.")]
        ELSE IF ~Truthy(accessToken)
        THEN [threw |-> TRUE, error |-> ConfigurationError("Access token is required.")]
        ELSE [threw |-> FALSE,
              value |-> [graphqlUrl |-> graphqlUrl.v, accessToken |-> accessToken.v,
                         tenantId |-> IF Truthy(tenantId) THEN tenantId.v ELSE <<>>]]

\* getConfig: the Error it throws, or the configuration it returns
GetConfig(args, env) ==
    LET parsed == ParseArgs(args, 1, [url |-> Undefined, token |-> Undefined,
                                      tenantId |-> Undefined])
        graphqlUrl == OrElse(parsed.url, env.VELOCITY_GRAPHQL_URL)
        accessToken == OrElse(parsed.token, env.VELOCITY_ACCESS_TOKEN)
        tenantId == OrElse(parsed.tenantId, env.VELOCITY_TENANT_ID)
    IN  IF ~Truthy(graphqlUrl)
        THEN [threw |-> TRUE, error |-> ConfigurationError("GraphQL URL is required.")]
        ELSE IF ~Truthy(accessToken)
        THEN [threw |-> TRUE, error |-> ConfigurationError("Access token is required.")]
        ELSE IF ~Truthy(tenantId)
        THEN [threw |-> TRUE, error |-> ConfigurationError("Tenant ID is required.")]
        ELSE [threw |-> FALSE,
              value |-> [graphqlUrl |-> graphqlUrl.v, accessToken |-> accessToken.v,
                         tenantId |-> tenantId.v]]

\* the tools registered before, and after, the server is connected
EarlyTools ==
    {"get_release_events", "create_release_event", "get_pipelines_by_tenant",
     "create_pipeline", "get_workflows_for_tenant", "get_particles_by_stage",
     "get_issues", "upload_issue_data", "get_deployment_metrics", "get_build_data",
     "get_teams_by_tenant", "create_team", "get_applications_by_criteria",
     "get_integrations_by_tenant", "test_graphql_connection"}

LateTools ==
    {"add_pipeline_gate", "get_my_access_key_metadata", "add_application_stages",
     "add_stage", "update_stage", "delete_stage", "update_workflow"}

\* ------------------------------------------------------ request executor
\* a variant that looks for the VelocitySession marker only
IsSessionCookieVelocityOnly(accessToken) ==
    Includes(accessToken, "VelocitySession=")

IsSessionCookie(accessToken) ==
    Includes(accessToken, "VelocitySession=") \/ Includes(accessToken, "SecurityApiSession=")

\* a variant that sends the access key as a Bearer token
HeadersBearer(cfg) ==
    IF IsSessionCookie(cfg.accessToken)
    THEN [ContentType |-> "application/json", Accept |-> "*/*",
          UserAgent |-> "MCP-Velocity-Client/1.0.0",
          Cookie |-> cfg.accessToken]
    ELSE [ContentType |-> "application/json", Accept |-> "*/*",
          UserAgent |-> "MCP-Velocity-Client/1.0.0",
          Authorization |-> <<"Bearer ">> \o cfg.accessToken]

\* a variant that sends the access-key header along with the cookie
HeadersBoth(cfg) ==
    IF IsSessionCookie(cfg.accessToken)
    THEN [ContentType |-> "application/json", Accept |-> "*/*",
          UserAgent |-> "MCP-Velocity-Client/1.0.0",
          Cookie |-> cfg.accessToken,
          Authorization |-> <<"UserAccessKey ">> \o cfg.accessToken]
    ELSE [ContentType |-> "application/json", Accept |-> "*/*",
          UserAgent |-> "MCP-Velocity-Client/1.0.0",
          Authorization |-> <<"UserAccessKey ">> \o cfg.accessToken]

Headers(cfg) ==
    IF IsSessionCookie(cfg.accessToken)
    THEN [ContentType |-> "application/json", Accept |-> "*/*",
          UserAgent |-> "MCP-Velocity-Client/1.0.0",
          Cookie |-> cfg.accessToken]
    ELSE [ContentType |-> "application/json", Accept |-> "*/*",
          UserAgent |-> "MCP-Velocity-Client/1.0.0",
          Authorization |-> <<"UserAccessKey ">> \o cfg.accessToken]

\* a retrying variant of attemptGraphQLRequest: the request goes out twice
AttemptGraphQLRequestRetry(cfg, query, variables, headers) ==
    LET req == [method |-> "POST", url |-> cfg.graphqlUrl, headers |-> headers,
                body |-> Stringify(Obj([query |-> Str(<<query>>),
                                        variables |-> variables]))]
    IN  <<req, req>>

\* the HTTP requests one call of attemptGraphQLRequest puts on the wire
AttemptGraphQLRequest(cfg, query, variables, headers) ==
    << [method |-> "POST", url |-> cfg.graphqlUrl, headers |-> headers,
        body |-> Stringify(Obj([query |-> Str(<<query>>),
                                variables |-> variables]))] >>

\* the requests one call of executeGraphQL sends before it awaits
ExecuteGraphQLSend(cfg, query, variables) ==
    AttemptGraphQLRequest(cfg, query, variables, Headers(cfg))

Throw(e) == [threw |-> TRUE, error |-> e]
Return(v) == [threw |-> FALSE, value |-> v]

\* response.ok of the fetch API: the status is in the 2xx range
ResponseOk(status) == status \in 200 .. 299

\* a variant that returns the data whenever the body holds some
ExecuteGraphQLResultDataFirst(resp) ==
    IF resp.kind = "reject" THEN Throw([kind |-> "fetch"])
    ELSE IF ~resp.ok
    THEN Throw([kind |-> "http", status |-> resp.status, text |-> resp.text])
    ELSE IF ~resp.json THEN Throw([kind |-> "json"])
    ELSE IF ~CanRead(resp.body) THEN Throw([kind |-> "type"])
    ELSE IF Get(resp.body, "data").t # "undefined" THEN Return(Get(resp.body, "data"))
    ELSE IF Truthy(Get(resp.body, "errors"))
    THEN Throw([kind |-> "graphql", errors |-> Stringify(Get(resp.body, "errors"))])
    ELSE Return(Get(resp.body, "data"))

\* a variant that takes a fresh session cookie from a successful response
ConfigAfterRequestRefresh(cfg, resp) ==
    IF resp.kind = "http" /\ resp.ok
    THEN [cfg EXCEPT !.accessToken = <<"VelocitySession=", "fresh">>]
    ELSE cfg

\* graphqlUrl, accessToken and tenantId after a call of executeGraphQL: they
\* are constants that the call reads and never assigns
ConfigAfterRequest(cfg, resp) == cfg

\* a variant that reads the body before it looks at the status
ExecuteGraphQLResultBodyFirst(resp) ==
    IF resp.kind = "reject" THEN Throw([kind |-> "fetch"])
    ELSE IF resp.json /\ CanRead(resp.body) /\ Truthy(Get(resp.body, "errors"))
    THEN Throw([kind |-> "graphql", errors |-> Stringify(Get(resp.body, "errors"))])
    ELSE IF ~resp.ok
    THEN Throw([kind |-> "http", status |-> resp.status, text |-> resp.text])
    ELSE IF ~resp.json THEN Throw([kind |-> "json"])
    ELSE IF ~CanRead(resp.body) THEN Throw([kind |-> "type"])
    ELSE Return(Get(resp.body, "data"))

\* a variant that takes only the statuses from 400 on for failures
ExecuteGraphQLResultFrom400(resp) ==
    IF resp.kind = "reject" THEN Throw([kind |-> "fetch"])
    ELSE IF resp.status >= 400
    THEN Throw([kind |-> "http", status |-> resp.status, text |-> resp.text])
    ELSE IF ~resp.json THEN Throw([kind |-> "json"])
    ELSE IF ~CanRead(resp.body) THEN Throw([kind |-> "type"])
    ELSE IF Truthy(Get(resp.body, "errors"))
    THEN Throw([kind |-> "graphql", errors |-> Stringify(Get(resp.body, "errors"))])
    ELSE Return(Get(resp.body, "data"))

\* what executeGraphQL does with the outcome of the fetch: the message of
\* the Error it throws, or the value it returns
ExecuteGraphQLResult(resp) ==
    IF resp.kind = "reject" THEN Throw([kind |-> "fetch"])
    ELSE IF ~resp.ok
    THEN Throw([kind |-> "http", status |-> resp.status, text |-> resp.text])
    ELSE IF ~resp.json THEN Throw([kind |-> "json"])
    ELSE IF ~CanRead(resp.body) THEN Throw([kind |-> "type"])
    ELSE IF Truthy(Get(resp.body, "errors"))
    THEN Throw([kind |-> "graphql", errors |-> Stringify(Get(resp.body, "errors"))])
    ELSE Return(Get(resp.body, "data"))

\* the text content a tool handler returns
Text(prefix, detail) == [type |-> "text", prefix |-> prefix, detail |-> detail]

\* -------------------------------------------- add_pipeline_gate: validate
NoError == [kind |-> "none"]
ValidationError(message) == [kind |-> "validation", message |-> message]

\* a variant that passes every approver on
UserApproversUnfiltered(manualApprovers) == manualApprovers.e

\* manualApprovers.filter(a => a.type === "user")
UserApprovers(manualApprovers) ==
    SelectSeq(manualApprovers.e, LAMBDA a : Get(a, "type") = Str(<<"user">>))

\* a variant that does not trim the name and accepts any non-empty list
ManualValidationLoose(a) ==
    IF ~Truthy(a.gateName) \/ a.gateName.t # "string"
    THEN ValidationError("gateName (rule name) is required for manual gate and must be a non-empty string")
    ELSE IF \/ ~Truthy(a.manualApprovers)
            \/ a.manualApprovers.t # "array"
            \/ Len(a.manualApprovers.e) = 0
    THEN ValidationError("manualApprovers (at least one user) is required for manual gate")
    ELSE NoError

ManualValidation(a) ==
    IF \/ ~Truthy(a.gateName)
       \/ a.gateName.t # "string"
       \/ Trim(a.gateName.v) = <<>>
    THEN ValidationError("gateName (rule name) is required for manual gate and must be a non-empty string")
    ELSE IF \/ ~Truthy(a.manualApprovers)
            \/ a.manualApprovers.t # "array"
            \/ Len(a.manualApprovers.e) = 0
    THEN ValidationError("manualApprovers (at least one user) is required for manual gate")
    ELSE IF Len(UserApprovers(a.manualApprovers)) = 0
    THEN ValidationError("At least one manual approver of type 'user' is required for manual gate")
    ELSE NoError

\* a variant that asks for the metric definition only
MetricValidationNoDql(a) ==
    IF ~Truthy(a.metricRule) \/ ~Truthy(Get(a.metricRule, "metricDefinition"))
    THEN ValidationError("metricRule.metricDefinition and metricRule.dql are required for metric gate")
    ELSE NoError

MetricValidation(a) ==
    IF \/ ~Truthy(a.metricRule)
       \/ ~Truthy(Get(a.metricRule, "metricDefinition"))
       \/ ~Truthy(Get(a.metricRule, "dql"))
    THEN ValidationError("metricRule.metricDefinition and metricRule.dql are required for metric gate")
    ELSE NoError

ComplianceValidation(a) ==
    IF \/ ~Truthy(a.complianceRule)
       \/ ~Truthy(Get(a.complianceRule, "resource"))
       \/ ~Truthy(Get(a.complianceRule, "dql"))
    THEN ValidationError("complianceRule.resource and complianceRule.dql are required for compliance gate")
    ELSE NoError

StatusValidation(a) ==
    IF ~Truthy(a.statusRule) \/ ~Truthy(Get(a.statusRule, "status"))
    THEN ValidationError("statusRule.status is required for status gate")
    ELSE NoError

\* a variant whose last branch takes every other gate type as a status gate
GateValidationFallThrough(a) ==
    IF a.gateType = Str(<<"manual">>) THEN ManualValidation(a)
    ELSE IF a.gateType = Str(<<"metric">>) THEN MetricValidation(a)
    ELSE IF a.gateType = Str(<<"compliance">>) THEN ComplianceValidation(a)
    ELSE StatusValidation(a)

\* the if / else-if chain on gateType, up to the first await or throw:
\* the Error thrown before any request, or NoError
GateValidation(a) ==
    IF a.gateType = Str(<<"manual">>) THEN ManualValidation(a)
    ELSE IF a.gateType = Str(<<"metric">>) THEN MetricValidation(a)
    ELSE IF a.gateType = Str(<<"compliance">>) THEN ComplianceValidation(a)
    ELSE IF a.gateType = Str(<<"status">>) THEN StatusValidation(a)
    ELSE ValidationError("Unsupported gateType")

\* ----------------------------------------- add_pipeline_gate: create rule
\* the mutation of each gate type, named by its root field
RuleMutation(gateType) ==
    IF gateType = Str(<<"manual">>) THEN "addManualVersionSignOffRule"
    ELSE IF gateType = Str(<<"metric">>) THEN "addAutomatedMetricRule"
    ELSE IF gateType = Str(<<"compliance">>) THEN "addComplianceRule"
    ELSE "addStatusRule"

CreateRuleVariables(a) ==
    IF a.gateType = Str(<<"manual">>)
    THEN Obj([input |-> Obj([name |-> a.gateName,
                             pipelineId |-> a.pipelineId,
                             approvers |-> Arr(UserApprovers(a.manualApprovers))])])
    ELSE IF a.gateType = Str(<<"metric">>)
    THEN Obj([input |-> Obj([pipelineId |-> a.pipelineId,
                             name |-> a.gateName,
                             description |-> Get(a.metricRule, "description"),
                             metricDefinition |-> Get(a.metricRule, "metricDefinition"),
                             dql |-> Get(a.metricRule, "dql"),
                             dataSet |-> Get(a.metricRule, "dataSet"),
                             timeRange |-> Get(a.metricRule, "timeRange")])])
    ELSE IF a.gateType = Str(<<"compliance">>)
    THEN Obj([input |-> Obj([pipelineId |-> a.pipelineId,
                             name |-> a.gateName,
                             description |-> Get(a.complianceRule, "description"),
                             resource |-> Get(a.complianceRule, "resource"),
                             dql |-> Get(a.complianceRule, "dql")])])
    ELSE Obj([input |-> Obj([pipelineId |-> a.pipelineId,
                             name |-> a.gateName,
                             status |-> Get(a.statusRule, "status"),
                             description |-> Get(a.statusRule, "description")])])

\* a variant that issues the create-rule request before it validates
SentOnInvokeEager(cfg, a) ==
    ExecuteGraphQLSend(cfg, RuleMutation(a.gateType),
                       Obj([input |-> Obj([pipelineId |-> a.pipelineId,
                                           name |-> a.gateName])]))

\* the requests the handler sends up to its first await: none when the
\* validation threw, else the one executeGraphQL call of the gate type
SentOnInvoke(cfg, a) ==
    IF GateValidation(a) # NoError THEN <<>>
    ELSE ExecuteGraphQLSend(cfg, RuleMutation(a.gateType), CreateRuleVariables(a))

\* a variant that swallows a failed create step and goes on without a rule id
AfterCreateSwallow(res, gateType) ==
    IF res.threw THEN Return(Undefined)
    ELSE IF ~CanRead(res.value) THEN Throw([kind |-> "type"])
    ELSE IF ~CanRead(Get(res.value, RuleMutation(gateType))) THEN Throw([kind |-> "type"])
    ELSE Return(Get(Get(res.value, RuleMutation(gateType)), "_id"))

\* result.<mutation>._id after the awaited executeGraphQL: the Error that
\* reaches the catch block, or the rule id
AfterCreate(res, gateType) ==
    IF res.threw THEN res
    ELSE IF ~CanRead(res.value) THEN Throw([kind |-> "type"])
    ELSE IF ~CanRead(Get(res.value, RuleMutation(gateType))) THEN Throw([kind |-> "type"])
    ELSE Return(Get(Get(res.value, RuleMutation(gateType)), "_id"))

\* ----------------------------------------- add_pipeline_gate: attach gate
\* a variant that always turns the notification on
UpsertVarsNotifyOn(a, ruleId) ==
    Obj([pipelineId |-> a.pipelineId,
         stageId |-> a.stageId,
         ruleIds |-> Arr(<<ruleId>>),
         manualGateNotification |-> Bool(TRUE)])

UpsertVars(a, ruleId) ==
    Obj([pipelineId |-> a.pipelineId,
         stageId |-> a.stageId,
         ruleIds |-> Arr(<<ruleId>>),
         manualGateNotification |-> a.manualGateNotification])

\* a variant that sends the attach request twice
SentAfterCreateTwice(cfg, a, step) ==
    IF step.threw THEN <<>>
    ELSE ExecuteGraphQLSend(cfg, "upsertPipelineGate", UpsertVars(a, step.value))
         \o ExecuteGraphQLSend(cfg, "upsertPipelineGate", UpsertVars(a, step.value))

\* the requests sent after the create step: none when it threw
SentAfterCreate(cfg, a, step) ==
    IF step.threw THEN <<>>
    ELSE ExecuteGraphQLSend(cfg, "upsertPipelineGate", UpsertVars(a, step.value))

\* upsertResult.upsertPipelineGate rendered into the returned text, or the
\* Error that reaches the catch block
AfterAttach(res) ==
    IF res.threw THEN res
    ELSE IF ~CanRead(res.value) THEN Throw([kind |-> "type"])
    ELSE Return(Text("Gate added to pipeline stage: ",
                     Stringify(Get(res.value, "upsertPipelineGate"))))

\* a variant whose catch block returns nothing
GateCatchSilent(error) ==
    [content |-> [kind |-> "none"], requests |-> <<>>]

\* a variant whose catch block sends a compensating request
GateCatchCompensate(error) ==
    [content |-> Text("Error adding gate: ", error),
     requests |-> << [method |-> "POST", url |-> <<"https://velocity/graphql">>,
                      headers |-> [ContentType |-> "application/json"],
                      body |-> Obj([query |-> Str(<<"deleteRule">>),
                                    variables |-> Obj(<<>>)])] >>]

\* the catch block: the text returned, and the requests it sends (none)
GateCatch(error) ==
    [content |-> Text("Error adding gate: ", error), requests |-> <<>>]

\* --------------------------------------------- get_my_access_key_metadata
AfterSimple(res) ==
    IF res.threw THEN res
    ELSE IF ~CanRead(res.value) THEN Throw([kind |-> "type"])
    ELSE Return(Text("Access key metadata: ",
                     Stringify(Get(res.value, "myAccessKeyMetaData"))))

\* a variant whose catch block throws the error on to the caller
SimpleCatchRethrow(error) ==
    [content |-> [type |-> "thrown", prefix |-> "", detail |-> error],
     requests |-> <<>>]

SimpleCatch(error) ==
    [content |-> Text("Error retrieving access key metadata: ", error),
     requests |-> <<>>]

\* ------------------------------------- the tools with an optional tenantId
TenantTools ==
    {"get_pipelines_by_tenant", "get_workflows_for_tenant", "get_issues",
     "get_teams_by_tenant", "create_team", "get_integrations_by_tenant"}

\* the three tools that page their result with an optional skip and limit
PagedTools == {"get_particles_by_stage", "get_deployment_metrics", "get_build_data"}

\* the root field of the query of each tool
RootField(tool) ==
    CASE tool = "get_pipelines_by_tenant" -> "pipelinesByTenantId"
      [] tool = "get_workflows_for_tenant" -> "workflowsForTenant"
      [] tool = "get_issues" -> "issues"
      [] tool = "get_teams_by_tenant" -> "teamsByTenantId"
      [] tool = "create_team" -> "addNewTeam"
      [] tool = "get_integrations_by_tenant" -> "integrationsByTenantId"
      [] tool = "get_particles_by_stage" -> "particlesByStage"
      [] tool = "get_deployment_metrics" -> "deployments"
      [] tool = "get_build_data" -> "builds"

SuccessPrefix(tool) ==
    CASE tool = "get_pipelines_by_tenant" -> "Pipelines retrieved: "
      [] tool = "get_workflows_for_tenant" -> "Workflows retrieved: "
      [] tool = "get_issues" -> "Issues retrieved: "
      [] tool = "get_teams_by_tenant" -> "Teams retrieved: "
      [] tool = "create_team" -> "Team created: "
      [] tool = "get_integrations_by_tenant" -> "Integrations retrieved: "
      [] tool = "get_particles_by_stage" -> "Particles retrieved: "
      [] tool = "get_deployment_metrics" -> "Deployment metrics retrieved: "
      [] tool = "get_build_data" -> "Build data retrieved: "

ErrorPrefix(tool) ==
    CASE tool = "get_pipelines_by_tenant" -> "Error retrieving pipelines: "
      [] tool = "get_workflows_for_tenant" -> "Error retrieving workflows: "
      [] tool = "get_issues" -> "Error retrieving issues: "
      [] tool = "get_teams_by_tenant" -> "Error retrieving teams: "
      [] tool = "create_team" -> "Error creating team: "
      [] tool = "get_integrations_by_tenant" -> "Error retrieving integrations: "
      [] tool = "get_particles_by_stage" -> "Error retrieving particles: "
      [] tool = "get_deployment_metrics" -> "Error retrieving deployment metrics: "
      [] tool = "get_build_data" -> "Error retrieving build data: "

\* a variant that falls back to the configured tenant only for a missing
\* tenantId (providedTenantId ?? tenantId)
TenantIdNullish(a, cfg) ==
    IF a.tenantId.t \in {"undefined", "null"} THEN Str(cfg.tenantId) ELSE a.tenantId

\* providedTenantId || tenantId
TenantId(a, cfg) == OrElse(a.tenantId, Str(cfg.tenantId))

\* a variant that tests the values instead of their presence (skip || limit)
PaginationTruthy(a) ==
    IF Truthy(a.skip) \/ Truthy(a.limit)
    THEN Obj([skip |-> a.skip, limit |-> a.limit])
    ELSE Undefined

\* (skip !== undefined || limit !== undefined) ? { skip, limit } : undefined
Pagination(a) ==
    IF a.skip.t # "undefined" \/ a.limit.t # "undefined"
    THEN Obj([skip |-> a.skip, limit |-> a.limit])
    ELSE Undefined

\* the variables each handler builds from its arguments
TenantToolVariables(tool, a, cfg) ==
    CASE tool = "get_issues" ->
            Obj([filter |-> Obj([tenantId |-> TenantId(a, cfg),
                                 internalIds |-> a.internalIds,
                                 skip |-> OrElse(a.skip, Num(0)),
                                 limit |-> OrElse(a.limit, Num(100))])])
      [] tool = "get_teams_by_tenant" ->
            Obj([tenantId |-> TenantId(a, cfg), roleIds |-> a.roleIds])
      [] tool = "create_team" ->
            Obj([name |-> a.name, tenantId |-> TenantId(a, cfg)])
      [] tool = "get_particles_by_stage" ->
            Obj([workflowId |-> a.workflowId,
                 stageName |-> a.stageName,
                 particleIds |-> a.particleIds,
                 pagination |-> Pagination(a)])
      [] tool = "get_deployment_metrics" ->
            Obj([query |-> Obj([tenantId |-> Str(cfg.tenantId),
                                teamIds |-> a.teamIds,
                                appIds |-> a.appIds,
                                relativeTime |-> a.relativeTime,
                                customStartDate |-> a.customStartDate,
                                customEndDate |-> a.customEndDate,
                                queryString |-> a.queryString,
                                pagination |-> Pagination(a)])])
      [] tool = "get_build_data" ->
            Obj([query |-> Obj([filters |-> Obj([tenantId |-> Str(cfg.tenantId),
                                                 teamIds |-> a.teamIds,
                                                 appIds |-> a.appIds,
                                                 relativeTime |-> a.relativeTime,
                                                 customStartDate |-> a.customStartDate,
                                                 customEndDate |-> a.customEndDate,
                                                 source |-> a.source,
                                                 status |-> a.status]),
                                pagination |-> Pagination(a)])])
      [] OTHER -> Obj([tenantId |-> TenantId(a, cfg)])

\* the requests the handler sends before its await
SentByTenantTool(cfg, tool, a) ==
    ExecuteGraphQLSend(cfg, RootField(tool), TenantToolVariables(tool, a, cfg))

AfterTenantTool(tool, res) ==
    IF res.threw THEN res
    ELSE IF ~CanRead(res.value) THEN Throw([kind |-> "type"])
    ELSE Return(Text(SuccessPrefix(tool), Stringify(Get(res.value, RootField(tool)))))

TenantToolCatch(tool, error) ==
    [content |-> Text(ErrorPrefix(tool), error), requests |-> <<>>]

\* ------------------------------------------------------------ tool calls
Invocations == 1 .. NumInv
None == [kind |-> "none"]
NoCall == [tool |-> "none"]

Approver(id, type) ==
    Obj([_id |-> Str(<<id>>), name |-> Str(<<id>>), type |-> Str(<<type>>)])

ApproverPool == {Approver("u1", "user"), Approver("u2", "user"), Approver("g1", "group")}

ApproverLists ==
    {Undefined} \cup
    {Arr(l) : l \in UNION {[1 .. n -> ApproverPool] : n \in 0 .. MaxApprovers}}

GateNames ==
    {Undefined} \cup
    {Str(l) : l \in UNION {[1 .. n -> {" ", "a"}] : n \in 0 .. MaxNameLen}}

Dql == Obj([type |-> Str(<<"gt">>), field |-> Str(<<"value">>), value |-> Str(<<"1">>)])
MetricDefinition == Obj([id |-> Str(<<"m1">>), name |-> Str(<<"coverage">>)])

MetricRules ==
    {Undefined} \cup
    {Obj([metricDefinition |-> d, dql |-> q, description |-> Str(<<"metric">>),
          dataSet |-> Undefined, timeRange |-> Undefined]) :
        d \in {Undefined, MetricDefinition}, q \in {Undefined, Dql}}

ComplianceRules ==
    {Undefined} \cup
    {Obj([description |-> Str(<<"compliance">>), resource |-> r, dql |-> q]) :
        r \in {Undefined, Str(<<>>), Str(<<"res">>)}, q \in {Undefined, Dql}}

StatusRules ==
    {Undefined} \cup
    {Obj([status |-> st, description |-> Str(<<"status">>)]) :
        st \in {Undefined, Str(<<>>), Str(<<"passed">>)}}

PipelineIds == {"p1", "p2"}

GateCall(p, gateType, gateName, approvers, metric, compliance, status, notify) ==
    [tool |-> "add_pipeline_gate",
     args |-> [pipelineId |-> Str(<<p>>),
               stageId |-> Str(<<"stage-of-", p>>),
               gateType |-> Str(<<gateType>>),
               gateName |-> gateName,
               manualApprovers |-> approvers,
               metricRule |-> metric,
               complianceRule |-> compliance,
               statusRule |-> status,
               manualGateNotification |-> Bool(notify)]]

SimpleCall == [tool |-> "get_my_access_key_metadata"]

\* the tenantId arguments tried: omitted, empty, and another tenant
TenantIdArgs == {Undefined, Str(<<>>), Str(<<"tenant-2">>)}

\* the skip arguments tried, and the limit arguments: omitted, zero, positive
SkipArgs == {Undefined, Num(0), Num(5)}
LimitArgs == {Undefined, Num(0), Num(10)}

TenantCalls ==
    {[tool |-> t, args |-> [tenantId |-> tid]] :
        t \in {"get_pipelines_by_tenant", "get_workflows_for_tenant",
                "get_integrations_by_tenant"},
        tid \in TenantIdArgs}
    \cup {[tool |-> "get_issues",
           args |-> [tenantId |-> tid, internalIds |-> Undefined,
                     skip |-> sk, limit |-> lim]] :
            tid \in TenantIdArgs,
            sk \in SkipArgs,
            lim \in LimitArgs}
    \cup {[tool |-> "get_teams_by_tenant",
           args |-> [tenantId |-> tid, roleIds |-> r]] :
            tid \in TenantIdArgs, r \in {Undefined, Arr(<<Str(<<"role-1">>)>>)}}
    \cup {[tool |-> "create_team",
           args |-> [name |-> Str(<<"team">>), tenantId |-> tid]] :
            tid \in TenantIdArgs}

PagedCalls ==
    {[tool |-> "get_particles_by_stage",
      args |-> [workflowId |-> Str(<<"w1">>), stageName |-> Str(<<"dev">>),
                particleIds |-> Undefined, skip |-> sk, limit |-> lim]] :
        sk \in SkipArgs, lim \in LimitArgs}
    \cup {[tool |-> "get_deployment_metrics",
           args |-> [teamIds |-> Undefined, appIds |-> Undefined,
                     relativeTime |-> Str(<<"DAY7">>), customStartDate |-> Undefined,
                     customEndDate |-> Undefined, queryString |-> Undefined,
                     skip |-> sk, limit |-> lim]] :
            sk \in SkipArgs, lim \in LimitArgs}
    \cup {[tool |-> "get_build_data",
           args |-> [teamIds |-> Undefined, appIds |-> Undefined,
                     relativeTime |-> Undefined, customStartDate |-> Undefined,
                     customEndDate |-> Undefined, source |-> Undefined,
                     status |-> Arr(<<Str(<<"failed">>)>>),
                     skip |-> sk, limit |-> lim]] :
            sk \in SkipArgs, lim \in LimitArgs}

\* the calls tried when one invocation runs alone
SingleCalls ==
    {SimpleCall}
    \cup {GateCall("p1", "manual", n, ap, Undefined, Undefined, Undefined, b) :
            n \in GateNames, ap \in ApproverLists, b \in BOOLEAN}
    \cup {GateCall("p1", "metric", Str(<<"a">>), Undefined, m, c, Undefined, b) :
            m \in MetricRules,
            c \in {Undefined, Obj([description |-> Str(<<"compliance">>),
                                   resource |-> Str(<<"res">>), dql |-> Dql])},
            b \in BOOLEAN}
    \cup {GateCall("p1", "compliance", Str(<<"a">>), Undefined, Undefined, c, st, TRUE) :
            c \in ComplianceRules,
            st \in {Undefined, Obj([status |-> Str(<<"passed">>),
                                    description |-> Str(<<"status">>)])}}
    \cup {GateCall("p1", "status", Str(<<"a">>), Undefined, m, Undefined, st, TRUE) :
            st \in StatusRules,
            m \in {Undefined, Obj([metricDefinition |-> MetricDefinition, dql |-> Dql,
                                   description |-> Str(<<"metric">>),
                                   dataSet |-> Undefined, timeRange |-> Undefined])}}
    \cup {GateCall("p1", "deploy", Str(<<"a">>),
                   Arr(<<Approver("u1", "user")>>),
                   Obj([metricDefinition |-> MetricDefinition, dql |-> Dql,
                        description |-> Str(<<"metric">>),
                        dataSet |-> Undefined, timeRange |-> Undefined]),
                   Undefined,
                   Obj([status |-> Str(<<"passed">>), description |-> Str(<<"status">>)]),
                   b) : b \in BOOLEAN}

\* the calls tried when several invocations run together
ConcurrentCalls ==
    {GateCall(p, "manual", Str(<<"a">>),
              Arr(<<Approver("g1", "group"), Approver("u1", "user")>>),
              Undefined, Undefined, Undefined, p = "p1") : p \in PipelineIds}

\* ------------------------------------------------------- remote endpoint
AllKinds ==
    {"reject", "http500", "http404", "http300", "http400Errors", "badJson", "bodyNull", "errors",
     "errorsWithData", "emptyErrors", "noData", "dataNull", "fieldMissing", "fieldNull",
     "noId", "ok"}

CoreKinds == {"http500", "errors", "ok"}

\* kinds in which the remote service carried the operation out
PerformedKinds == {"ok", "emptyErrors"}

QueryOf(req) == req.body.f.query.v[1]
VariablesOf(req) == req.body.f.variables

RuleMutations ==
    {"addManualVersionSignOffRule", "addAutomatedMetricRule",
     "addComplianceRule", "addStatusRule"}

\* the value the remote service returns under the root field
RemoteResult(req, rules, gates) ==
    IF QueryOf(req) \in RuleMutations
    THEN Obj([_id |-> Str(<<"r">> \o Unary(Cardinality(rules) + 1)),
              name |-> Get(Get(VariablesOf(req), "input"), "name"),
              pipelineId |-> Get(Get(VariablesOf(req), "input"), "pipelineId")])
    ELSE IF QueryOf(req) = "upsertPipelineGate"
    THEN Obj([_id |-> Str(<<"g">> \o Unary(Cardinality(gates) + 1)),
              pipelineId |-> Get(VariablesOf(req), "pipelineId"),
              stageId |-> Get(VariablesOf(req), "stageId"),
              rules |-> Get(VariablesOf(req), "ruleIds"),
              manualGateNotification |-> Get(VariablesOf(req), "manualGateNotification")])
    ELSE Obj([id |-> Str(<<"k1">>), name |-> Str(<<"key">>)])

WithoutId(o) == Obj([k \in DOMAIN o.f \ {"_id"} |-> o.f[k]])

GraphQLErrors ==
    Arr(<<Obj([message |-> Str(<<"bad field">>)]),
          Obj([message |-> Str(<<"denied">>)])>>)

HttpOk(body) ==
    [kind |-> "http", ok |-> ResponseOk(200), status |-> 200, json |-> TRUE, body |-> body]

\* a response whose body is plain text
HttpText(status, text) ==
    [kind |-> "http", ok |-> ResponseOk(status), status |-> status, json |-> FALSE,
     text |-> text]

\* the outcome of the fetch, by kind
Response(kind, req, rules, gates) ==
    LET field == QueryOf(req)
        result == RemoteResult(req, rules, gates)
        Data(v) == Obj([k \in {field} |-> v])
    IN  CASE kind = "reject" -> [kind |-> "reject"]
          [] kind = "http500" -> HttpText(500, <<"Internal Server Error">>)
          [] kind = "http404" -> HttpText(404, <<"Not Found">>)
          [] kind = "http300" -> HttpText(300, <<"Multiple Choices">>)
          [] kind = "http400Errors" ->
                [kind |-> "http", ok |-> ResponseOk(400), status |-> 400, json |-> TRUE,
                 text |-> <<"{\"errors\":[...]}">>,
                 body |-> Obj([errors |-> GraphQLErrors])]
          [] kind = "badJson" -> HttpText(200, <<"<html>">>)
          [] kind = "bodyNull" -> HttpOk(Null)
          [] kind = "errors" -> HttpOk(Obj([errors |-> GraphQLErrors]))
          [] kind = "errorsWithData" ->
                HttpOk(Obj([errors |-> GraphQLErrors, data |-> Data(Null)]))
          [] kind = "emptyErrors" ->
                HttpOk(Obj([errors |-> Arr(<<>>), data |-> Data(result)]))
          [] kind = "noData" -> HttpOk(Obj([extensions |-> Obj(<<>>)]))
          [] kind = "dataNull" -> HttpOk(Obj([data |-> Null]))
          [] kind = "fieldMissing" -> HttpOk(Obj([data |-> Obj(<<>>)]))
          [] kind = "fieldNull" -> HttpOk(Obj([data |-> Data(Null)]))
          [] kind = "noId" -> HttpOk(Obj([data |-> Data(WithoutId(result))]))
          [] OTHER -> HttpOk(Obj([data |-> Data(result)]))

\* ----------------------------------------------------------------- state
VARIABLES
    signals,         \* whether a termination signal reaches this process
    argv,            \* process.argv.slice(2)
    environ,         \* process.env
    main,            \* where the top-level code of the module is
    fatal,           \* the Error that ended the process at startup
    registered,      \* the tools registered with the server
    config,          \* graphqlUrl, accessToken, tenantId set at startup
    transportKinds,  \* the kinds of fetch outcome that occur in this run
    calls,           \* the tool call each invocation handles
    pc,              \* where each handler is: idle, an await, or done
    ruleId,          \* the handler's local ruleId
    inflight,        \* the request each handler awaits, not yet answered
    arrived,         \* the fetch outcome that arrived, not yet consumed
    reqs,            \* every HTTP request each invocation has sent, in order
    resps,           \* the fetch outcome of each request of an invocation, in order
    output,          \* the content each handler returned
    remoteRules,     \* ids of the rules that exist in the remote service
    remoteGates      \* the gates attached in the remote service

vars == <<signals, argv, environ, main, fatal, registered, config, transportKinds, calls, pc,
          ruleId, inflight, arrived, reqs, resps, output, remoteRules, remoteGates>>

\* what the handlers leave alone
startup == <<signals, argv, environ, main, fatal, registered, config>>

\* the same without the configuration
process == <<signals, argv, environ, main, fatal, registered>>

\* the process before its top-level code runs.  One invocation alone, with
\* every call, credential and fetch outcome; or several invocations together
\* with the calls and outcomes that reach the attach step; or one invocation
\* of a process started with any command line and environment; or one gate
\* invocation of a process that a termination signal may reach
Init ==
    /\ \/ /\ signals = FALSE
          /\ argv = <<>>
          /\ environ \in Environments
          /\ transportKinds = AllKinds
          /\ calls \in {[i \in Invocations |-> IF i = 1 THEN c ELSE NoCall] :
                          c \in SingleCalls \cup TenantCalls \cup PagedCalls}
       \/ /\ signals = FALSE
          /\ argv = <<>>
          /\ environ \in {e \in Environments :
                            ~IsSessionCookie(e.VELOCITY_ACCESS_TOKEN.v)}
          /\ transportKinds = CoreKinds
          /\ calls \in [Invocations -> ConcurrentCalls]
       \/ /\ signals = TRUE
          /\ argv = <<>>
          /\ environ \in {e \in Environments :
                            ~IsSessionCookie(e.VELOCITY_ACCESS_TOKEN.v)}
          /\ transportKinds = CoreKinds
          /\ calls \in {[i \in Invocations |-> IF i = 1 THEN c ELSE NoCall] :
                          c \in ConcurrentCalls}
       \/ /\ signals = FALSE
          /\ argv \in ArgLists
          /\ environ \in PartialEnvironments
          /\ transportKinds = {"ok"}
          /\ calls = [i \in Invocations |-> IF i = 1 THEN SimpleCall ELSE NoCall]
    /\ main = "start"
    /\ fatal = None
    /\ registered = {}
    /\ config = None
    /\ pc = [i \in Invocations |-> "idle"]
    /\ ruleId = [i \in Invocations |-> Undefined]
    /\ inflight = [i \in Invocations |-> None]
    /\ arrived = [i \in Invocations |-> None]
    /\ reqs = [i \in Invocations |-> <<>>]
    /\ resps = [i \in Invocations |-> <<>>]
    /\ output = [i \in Invocations |-> None]
    /\ remoteRules = {}
    /\ remoteGates = {}

Last(s) == IF s = <<>> THEN None ELSE s[Len(s)]

\* a variant in which the callbacks that are pending at the signal still run
RunsDraining(m) == m \in {"serving", "exited"}

\* the event loop runs the callbacks of a connected process until
\* process.exit
Runs(m) == m = "serving"

\* the top-level code up to the await of server.connect: getConfig throws and
\* the process ends, or the server is created and the first tools registered
Start ==
    /\ main = "start"
    /\ LET res == GetConfig(argv, environ)
       IN  IF res.threw
           THEN /\ main' = "failed"
                /\ fatal' = res.error
                /\ UNCHANGED <<config, registered>>
           ELSE /\ main' = "connecting"
                /\ config' = res.value
                /\ registered' = EarlyTools
                /\ UNCHANGED fatal
    /\ UNCHANGED <<signals, argv, environ, transportKinds, calls, pc, ruleId, inflight,
                   arrived, reqs, resps, output, remoteRules, remoteGates>>

\* the top-level code after the await of server.connect: the other tools
Connected ==
    /\ main = "connecting"
    /\ main' = "serving"
    /\ registered' = registered \cup LateTools
    /\ UNCHANGED <<signals, argv, environ, fatal, config, transportKinds, calls, pc,
                   ruleId, inflight, arrived, reqs, resps, output, remoteRules,
                   remoteGates>>

\* SIGTERM or SIGINT: cleanup calls process.exit(0)
Signal ==
    /\ signals
    /\ main \in {"start", "connecting", "serving"}
    /\ main' = "exited"
    /\ UNCHANGED <<signals, argv, environ, fatal, registered, config, transportKinds,
                   calls, pc, ruleId, inflight, arrived, reqs, resps, output,
                   remoteRules, remoteGates>>

\* the server dispatches a call to the handler of a registered tool
CanInvoke(i) ==
    /\ Runs(main)
    /\ pc[i] = "idle"
    /\ calls[i].tool \in registered

\* a variant in which the result of the first identical call is kept and
\* given to the later ones
AwaitedResponseCached(arr, i) ==
    LET n == Len(resps[i])
        first == CHOOSE j \in Invocations :
                    /\ calls[j] = calls[i] /\ Len(resps[j]) >= n
                    /\ \A k \in Invocations :
                          (calls[k] = calls[i] /\ Len(resps[k]) >= n) => j <= k
    IN  resps[first][n]

\* a variant in which the continuations share one response slot
AwaitedResponseShared(arr, i) ==
    arr[CHOOSE j \in Invocations : arr[j] # None /\ \A k \in Invocations : arr[k] # None => j <= k]

\* the fetch outcome the await of invocation i resolves to
AwaitedResponse(arr, i) == arr[i]

\* the handler of add_pipeline_gate, from its call to its first await or return
InvokeGate(i) ==
    /\ CanInvoke(i)
    /\ calls[i].tool = "add_pipeline_gate"
    /\ LET a == calls[i].args
           err == GateValidation(a)
           sent == SentOnInvoke(config, a)
       IN  IF err # NoError
           THEN /\ pc' = [pc EXCEPT ![i] = "done"]
                /\ output' = [output EXCEPT ![i] = GateCatch(err).content]
                /\ reqs' = [reqs EXCEPT ![i] = @ \o sent \o GateCatch(err).requests]
                /\ UNCHANGED inflight
           ELSE /\ pc' = [pc EXCEPT ![i] = "awaitCreate"]
                /\ reqs' = [reqs EXCEPT ![i] = @ \o sent]
                /\ inflight' = [inflight EXCEPT ![i] = Last(sent)]
                /\ UNCHANGED output
    /\ UNCHANGED <<startup, transportKinds, calls, ruleId, arrived, resps,
                   remoteRules, remoteGates>>

\* the handler resumes after the await of the create-rule executeGraphQL
ResumeCreate(i) ==
    /\ Runs(main)
    /\ pc[i] = "awaitCreate"
    /\ arrived[i] # None
    /\ LET a == calls[i].args
           resp == AwaitedResponse(arrived, i)
           step == AfterCreate(ExecuteGraphQLResult(resp), a.gateType)
           sent == SentAfterCreate(config, a, step)
       IN  IF step.threw
           THEN /\ pc' = [pc EXCEPT ![i] = "done"]
                /\ output' = [output EXCEPT ![i] = GateCatch(step.error).content]
                /\ reqs' = [reqs EXCEPT ![i] = @ \o sent \o GateCatch(step.error).requests]
                /\ UNCHANGED <<ruleId, inflight>>
           ELSE /\ pc' = [pc EXCEPT ![i] = "awaitAttach"]
                /\ ruleId' = [ruleId EXCEPT ![i] = step.value]
                /\ reqs' = [reqs EXCEPT ![i] = @ \o sent]
                /\ inflight' = [inflight EXCEPT ![i] = Last(sent)]
                /\ UNCHANGED output
    /\ arrived' = [arrived EXCEPT ![i] = None]
    /\ config' = ConfigAfterRequest(config, AwaitedResponse(arrived, i))
    /\ UNCHANGED <<process, transportKinds, calls, resps, remoteRules, remoteGates>>

\* the handler resumes after the await of the upsertPipelineGate executeGraphQL
ResumeAttach(i) ==
    /\ Runs(main)
    /\ pc[i] = "awaitAttach"
    /\ arrived[i] # None
    /\ LET resp == AwaitedResponse(arrived, i)
           step == AfterAttach(ExecuteGraphQLResult(resp))
       IN  IF step.threw
           THEN /\ output' = [output EXCEPT ![i] = GateCatch(step.error).content]
                /\ reqs' = [reqs EXCEPT ![i] = @ \o GateCatch(step.error).requests]
           ELSE /\ output' = [output EXCEPT ![i] = step.value]
                /\ UNCHANGED reqs
    /\ pc' = [pc EXCEPT ![i] = "done"]
    /\ arrived' = [arrived EXCEPT ![i] = None]
    /\ config' = ConfigAfterRequest(config, AwaitedResponse(arrived, i))
    /\ UNCHANGED <<process, transportKinds, calls, ruleId, inflight, resps,
                   remoteRules, remoteGates>>

\* the handler of get_my_access_key_metadata up to its await
InvokeSimple(i) ==
    /\ CanInvoke(i)
    /\ calls[i].tool = "get_my_access_key_metadata"
    /\ LET sent == ExecuteGraphQLSend(config, "myAccessKeyMetaData", Obj(<<>>))
       IN  /\ reqs' = [reqs EXCEPT ![i] = @ \o sent]
           /\ inflight' = [inflight EXCEPT ![i] = Last(sent)]
    /\ pc' = [pc EXCEPT ![i] = "awaitSimple"]
    /\ UNCHANGED <<startup, transportKinds, calls, ruleId, arrived, resps, output,
                   remoteRules, remoteGates>>

ResumeSimple(i) ==
    /\ Runs(main)
    /\ pc[i] = "awaitSimple"
    /\ arrived[i] # None
    /\ LET resp == AwaitedResponse(arrived, i)
           step == AfterSimple(ExecuteGraphQLResult(resp))
       IN  IF step.threw
           THEN /\ output' = [output EXCEPT ![i] = SimpleCatch(step.error).content]
                /\ reqs' = [reqs EXCEPT ![i] = @ \o SimpleCatch(step.error).requests]
           ELSE /\ output' = [output EXCEPT ![i] = step.value]
                /\ UNCHANGED reqs
    /\ pc' = [pc EXCEPT ![i] = "done"]
    /\ arrived' = [arrived EXCEPT ![i] = None]
    /\ config' = ConfigAfterRequest(config, AwaitedResponse(arrived, i))
    /\ UNCHANGED <<process, transportKinds, calls, ruleId, inflight, resps,
                   remoteRules, remoteGates>>

\* the handler of a tool with an optional tenantId, or of a paged tool, up
\* to its await
InvokeTenantTool(i) ==
    /\ CanInvoke(i)
    /\ calls[i].tool \in TenantTools \cup PagedTools
    /\ LET sent == SentByTenantTool(config, calls[i].tool, calls[i].args)
       IN  /\ reqs' = [reqs EXCEPT ![i] = @ \o sent]
           /\ inflight' = [inflight EXCEPT ![i] = Last(sent)]
    /\ pc' = [pc EXCEPT ![i] = "awaitTenant"]
    /\ UNCHANGED <<startup, transportKinds, calls, ruleId, arrived, resps, output,
                   remoteRules, remoteGates>>

ResumeTenantTool(i) ==
    /\ Runs(main)
    /\ pc[i] = "awaitTenant"
    /\ arrived[i] # None
    /\ LET tool == calls[i].tool
           resp == AwaitedResponse(arrived, i)
           step == AfterTenantTool(tool, ExecuteGraphQLResult(resp))
       IN  IF step.threw
           THEN /\ output' = [output EXCEPT ![i] = TenantToolCatch(tool, step.error).content]
                /\ reqs' = [reqs EXCEPT ![i] =
                                @ \o TenantToolCatch(tool, step.error).requests]
           ELSE /\ output' = [output EXCEPT ![i] = step.value]
                /\ UNCHANGED reqs
    /\ pc' = [pc EXCEPT ![i] = "done"]
    /\ arrived' = [arrived EXCEPT ![i] = None]
    /\ config' = ConfigAfterRequest(config, AwaitedResponse(arrived, i))
    /\ UNCHANGED <<process, transportKinds, calls, ruleId, inflight, resps,
                   remoteRules, remoteGates>>

\* the remote service can carry the request out: an attach needs its rules
CanPerform(req, rules) ==
    QueryOf(req) = "upsertPipelineGate" =>
        \A n \in DOMAIN Get(VariablesOf(req), "ruleIds").e :
            Get(VariablesOf(req), "ruleIds").e[n] \in rules

\* the fetch of invocation i settles: the remote service answers (and, when
\* it carried the operation out, keeps the rule or the gate), or the call fails
Respond(i) ==
    /\ Runs(main)
    /\ inflight[i] # None
    /\ arrived[i] = None
    /\ \E kind \in transportKinds :
        LET req == inflight[i]
            performed == kind \in PerformedKinds
        IN  /\ kind \in PerformedKinds \cup {"noId"} => CanPerform(req, remoteRules)
            /\ arrived' = [arrived EXCEPT ![i] = Response(kind, req, remoteRules, remoteGates)]
            /\ remoteRules' =
                  IF performed /\ QueryOf(req) \in RuleMutations
                  THEN remoteRules \cup {Get(RemoteResult(req, remoteRules, remoteGates), "_id")}
                  ELSE remoteRules
            /\ remoteGates' =
                  IF performed /\ QueryOf(req) = "upsertPipelineGate"
                  THEN remoteGates \cup {RemoteResult(req, remoteRules, remoteGates)}
                  ELSE remoteGates
    /\ resps' = [resps EXCEPT ![i] = Append(@, arrived'[i])]
    /\ inflight' = [inflight EXCEPT ![i] = None]
    /\ UNCHANGED <<startup, transportKinds, calls, pc, ruleId, reqs, output>>

Next ==
    \/ Start
    \/ Connected
    \/ Signal
    \/ \E i \in Invocations :
          \/ InvokeGate(i)
          \/ ResumeCreate(i)
          \/ ResumeAttach(i)
          \/ InvokeSimple(i)
          \/ ResumeSimple(i)
          \/ InvokeTenantTool(i)
          \/ ResumeTenantTool(i)
          \/ Respond(i)

Spec == Init /\ [][Next]_vars

\* the calls tried for the runs in which progress is followed: one gate of
\* each type, a gate that fails validation, and the one-request tools
LiveCalls ==
    {SimpleCall,
     [tool |-> "get_issues",
      args |-> [tenantId |-> Undefined, internalIds |-> Undefined,
                skip |-> Undefined, limit |-> Undefined]],
     GateCall("p1", "manual", Str(<<"a">>), Arr(<<Approver("u1", "user")>>),
              Undefined, Undefined, Undefined, TRUE),
     GateCall("p1", "manual", Str(<<" ">>), Arr(<<Approver("u1", "user")>>),
              Undefined, Undefined, Undefined, TRUE),
     GateCall("p1", "metric", Str(<<"a">>), Undefined,
              Obj([metricDefinition |-> MetricDefinition, dql |-> Dql,
                   description |-> Str(<<"metric">>),
                   dataSet |-> Undefined, timeRange |-> Undefined]),
              Undefined, Undefined, FALSE),
     GateCall("p1", "compliance", Str(<<"a">>), Undefined, Undefined,
              Obj([description |-> Str(<<"compliance">>),
                   resource |-> Str(<<"res">>), dql |-> Dql]),
              Undefined, TRUE),
     GateCall("p1", "status", Str(<<"a">>), Undefined, Undefined, Undefined,
              Obj([status |-> Str(<<"passed">>), description |-> Str(<<"status">>)]),
              TRUE)}

\* the starting states of those runs: one invocation alone with every fetch
\* outcome, two invocations together, a process that a signal may reach, and
\* a process started with part of its configuration
LiveInit ==
    /\ \/ /\ signals = FALSE
          /\ argv = <<>>
          /\ environ \in {e \in Environments : e.VELOCITY_ACCESS_TOKEN = Str(<<"key">>)}
          /\ transportKinds = AllKinds
          /\ calls \in {[i \in Invocations |-> IF i = 1 THEN c ELSE NoCall] :
                          c \in LiveCalls}
       \/ /\ signals = FALSE
          /\ argv = <<>>
          /\ environ \in {e \in Environments : e.VELOCITY_ACCESS_TOKEN = Str(<<"key">>)}
          /\ transportKinds = CoreKinds
          /\ calls \in {[i \in Invocations |->
                            IF i = 1 THEN c ELSE IF i = 2 THEN d ELSE NoCall] :
                          c \in ConcurrentCalls, d \in ConcurrentCalls}
       \/ /\ signals = TRUE
          /\ argv = <<>>
          /\ environ \in {e \in Environments : e.VELOCITY_ACCESS_TOKEN = Str(<<"key">>)}
          /\ transportKinds = CoreKinds
          /\ calls \in {[i \in Invocations |-> IF i = 1 THEN c ELSE NoCall] :
                          c \in ConcurrentCalls}
       \/ /\ signals = FALSE
          /\ argv \in {<<>>, <<Str(<<"--token">>), Str(<<"cli">>)>>}
          /\ environ \in PartialEnvironments
          /\ transportKinds = {"ok"}
          /\ calls = [i \in Invocations |-> IF i = 1 THEN SimpleCall ELSE NoCall]
    /\ main = "start"
    /\ fatal = None
    /\ registered = {}
    /\ config = None
    /\ pc = [i \in Invocations |-> "idle"]
    /\ ruleId = [i \in Invocations |-> Undefined]
    /\ inflight = [i \in Invocations |-> None]
    /\ arrived = [i \in Invocations |-> None]
    /\ reqs = [i \in Invocations |-> <<>>]
    /\ resps = [i \in Invocations |-> <<>>]
    /\ output = [i \in Invocations |-> None]
    /\ remoteRules = {}
    /\ remoteGates = {}

\* a pending fetch settles, or a handler whose fetch has settled goes on
Progress ==
    \E i \in Invocations :
        \/ Respond(i)
        \/ ResumeCreate(i)
        \/ ResumeAttach(i)
        \/ ResumeSimple(i)
        \/ ResumeTenantTool(i)

\* every fetch settles, and the event loop runs a continuation that is
\* ready: while one of these steps is possible, one of them is taken
LiveSpec ==
    /\ LiveInit
    /\ [][Next]_vars
    /\ WF_vars(Progress)

\* ------------------------------------------------------------ properties
IsGate(i) == calls[i].tool = "add_pipeline_gate"
IsSimple(i) == calls[i].tool = "get_my_access_key_metadata"
GateTypeIs(i, gt) == IsGate(i) /\ calls[i].args.gateType = Str(<<gt>>)

\* the handler of invocation i has consumed the outcome of its n-th request
Consumed(i, n) ==
    /\ Len(resps[i]) >= n
    /\ (Len(resps[i]) = n => arrived[i] = None)

\* a transport or GraphQL failure of a request, read off the fetch outcome:
\* a rejected fetch, a non-2xx status, or a 2xx body with a non-empty errors
\* array
IsFailure(resp) ==
    \/ resp.kind = "reject"
    \/ resp.kind = "http" /\ ~resp.ok
    \/ /\ resp.kind = "http" /\ resp.ok /\ resp.json
       /\ resp.body.t = "object"
       /\ "errors" \in DOMAIN resp.body.f
       /\ resp.body.f.errors.t = "array"
       /\ resp.body.f.errors.e # <<>>

\* what the caller is told about such a failure
FailureOf(resp) ==
    IF resp.kind = "reject" THEN [kind |-> "fetch"]
    ELSE IF ~resp.ok THEN [kind |-> "http", status |-> resp.status, text |-> resp.text]
    ELSE [kind |-> "graphql", errors |-> resp.body.f.errors]

AttachSent(i) ==
    \E n \in DOMAIN reqs[i] : QueryOf(reqs[i][n]) = "upsertPipelineGate"

IsErrorOutput(i, kind) ==
    /\ output[i] # None
    /\ output[i].prefix = "Error adding gate: "
    /\ output[i].detail.kind = kind

\* C1: once the create-rule request of a gate invocation has failed with a
\* transport or GraphQL error, the invocation holds no upsertPipelineGate
\* request, and once its handler has seen the failure it is done and its
\* output carries exactly that failure
C1_CreateFailureStops ==
    \A i \in Invocations :
        (IsGate(i) /\ Len(resps[i]) >= 1 /\ IsFailure(resps[i][1])) =>
            /\ ~AttachSent(i)
            /\ Len(reqs[i]) = 1
            /\ Consumed(i, 1) =>
                  /\ pc[i] = "done"
                  /\ output[i] = Text("Error adding gate: ", FailureOf(resps[i][1]))

C1_Witness ==
    \E i \in Invocations :
        /\ IsGate(i)
        /\ pc[i] = "done"
        /\ Len(resps[i]) = 1
        /\ IsFailure(resps[i][1])
        /\ resps[i][1].kind = "http" /\ resps[i][1].ok
        /\ IsErrorOutput(i, "graphql")
        /\ ~AttachSent(i)

\* C2: a gate invocation that has ended in a validation error has sent no
\* HTTP request
C2_ValidationBeforeNetwork ==
    \A i \in Invocations :
        (IsGate(i) /\ IsErrorOutput(i, "validation")) =>
            /\ reqs[i] = <<>>
            /\ resps[i] = <<>>
            /\ inflight[i] = None

C2_Witness ==
    \E i \in Invocations :
        /\ GateTypeIs(i, "manual")
        /\ pc[i] = "done"
        /\ IsErrorOutput(i, "validation")
        /\ calls[i].args.manualApprovers = Arr(<<Approver("g1", "group")>>)
        /\ reqs[i] = <<>>

\* the create-rule request returned a rule whose _id is the string r
CreateReturned(i, r) ==
    /\ Len(resps[i]) >= 1
    /\ LET res == ExecuteGraphQLResult(resps[i][1])
           field == RuleMutation(calls[i].args.gateType)
       IN  /\ ~res.threw
           /\ res.value.t = "object"
           /\ Get(res.value, field).t = "object"
           /\ Get(Get(res.value, field), "_id") = r
    /\ r.t = "string"

RuleIdValues == {Str(<<"r">> \o Unary(n)) : n \in 1 .. NumInv}

\* the gate the attach request returned, undefined when it returned none
AttachedGate(i) ==
    IF Len(resps[i]) < 2 THEN Undefined
    ELSE LET res == ExecuteGraphQLResult(resps[i][2])
         IN  IF res.threw \/ ~CanRead(res.value) THEN Undefined
             ELSE Get(res.value, "upsertPipelineGate")

\* C3: when the create-rule request returned rule id r and the handler has
\* seen it, the second request is upsertPipelineGate with variables exactly
\* pipelineId, stageId, ruleIds = [r] and manualGateNotification of the call;
\* when that request returned a gate, the output is that gate unchanged
C3_AttachExactVariables ==
    \A i \in Invocations : \A r \in RuleIdValues :
        (IsGate(i) /\ CreateReturned(i, r) /\ Consumed(i, 1)) =>
            /\ Len(reqs[i]) = 2
            /\ QueryOf(reqs[i][2]) = "upsertPipelineGate"
            /\ VariablesOf(reqs[i][2]) =
                  Obj([pipelineId |-> calls[i].args.pipelineId,
                       stageId |-> calls[i].args.stageId,
                       ruleIds |-> Arr(<<r>>),
                       manualGateNotification |-> calls[i].args.manualGateNotification])
            /\ (Consumed(i, 2) /\ AttachedGate(i).t = "object") =>
                  /\ pc[i] = "done"
                  /\ output[i] = Text("Gate added to pipeline stage: ", AttachedGate(i))

C3_Witness ==
    \E i \in Invocations :
        /\ IsGate(i)
        /\ pc[i] = "done"
        /\ calls[i].args.manualGateNotification = Bool(FALSE)
        /\ CreateReturned(i, Str(<<"r", "i">>))
        /\ Len(resps[i]) = 2
        /\ output[i] # None
        /\ output[i].prefix = "Gate added to pipeline stage: "
        /\ output[i].detail.t = "object"
        /\ output[i].detail = AttachedGate(i)

\* the approvers of kind user of a list, in the order of the list
RECURSIVE UsersOf(_)
UsersOf(l) ==
    IF l = <<>> THEN <<>>
    ELSE IF Head(l).f.type.v = <<"user">> THEN <<Head(l)>> \o UsersOf(Tail(l))
    ELSE UsersOf(Tail(l))

\* an approver of kind group occurs somewhere in the JSON value v
RECURSIVE MentionsGroup(_)
MentionsGroup(v) ==
    IF v.t = "object"
    THEN \/ ("type" \in DOMAIN v.f /\ v.f.type = Str(<<"group">>))
         \/ \E k \in DOMAIN v.f : MentionsGroup(v.f[k])
    ELSE IF v.t = "array" THEN \E n \in DOMAIN v.e : MentionsGroup(v.e[n])
    ELSE FALSE

\* C4: the approvers of the create-rule request of a manual gate are the
\* user approvers of the call, in the order of the call, and no request body
\* of any invocation holds an approver of kind group
C4_OnlyUserApproversSent ==
    \A i \in Invocations :
        /\ (GateTypeIs(i, "manual") /\ Len(reqs[i]) >= 1) =>
              /\ QueryOf(reqs[i][1]) = "addManualVersionSignOffRule"
              /\ Get(Get(VariablesOf(reqs[i][1]), "input"), "approvers") =
                    Arr(UsersOf(calls[i].args.manualApprovers.e))
        /\ \A n \in DOMAIN reqs[i] : ~MentionsGroup(reqs[i][n].body)

C4_Witness ==
    \E i \in Invocations :
        /\ GateTypeIs(i, "manual")
        /\ calls[i].args.manualApprovers =
              Arr(<<Approver("g1", "group"), Approver("u1", "user")>>)
        /\ Len(reqs[i]) = 2
        /\ Get(Get(VariablesOf(reqs[i][1]), "input"), "approvers") =
              Arr(<<Approver("u1", "user")>>)

\* a manual gate call is acceptable: its name has a character that is not
\* white space and its approvers hold one of kind user
ManualAcceptable(a) ==
    /\ a.gateName.t = "string"
    /\ \E n \in DOMAIN a.gateName.v : a.gateName.v[n] # " "
    /\ a.manualApprovers.t = "array"
    /\ \E n \in DOMAIN a.manualApprovers.e :
          a.manualApprovers.e[n].f.type = Str(<<"user">>)

\* C5: a manual gate invocation that has run its validation ended in a
\* validation error exactly when the call is not acceptable, and sent its
\* create-rule request exactly when it is
C5_ManualValidationIff ==
    \A i \in Invocations :
        (GateTypeIs(i, "manual") /\ pc[i] # "idle") =>
            /\ IsErrorOutput(i, "validation") <=> ~ManualAcceptable(calls[i].args)
            /\ Len(reqs[i]) >= 1 <=> ManualAcceptable(calls[i].args)

C5_Witness ==
    \E i \in Invocations :
        /\ GateTypeIs(i, "manual")
        /\ calls[i].args.gateName = Str(<<" ", "a">>)
        /\ calls[i].args.manualApprovers = Arr(<<Approver("g1", "group")>>)
        /\ IsErrorOutput(i, "validation")
        /\ output[i].detail.message =
              "At least one manual approver of type 'user' is required for manual gate"

NonManualTypes == {"metric", "compliance", "status"}

IsNonManualGate(i) == \E gt \in NonManualTypes : GateTypeIs(i, gt)

\* the required fields of the gate type of call a
RequiredFields(a) ==
    IF a.gateType = Str(<<"metric">>)
    THEN <<a.metricRule, Get(a.metricRule, "metricDefinition"), Get(a.metricRule, "dql")>>
    ELSE IF a.gateType = Str(<<"compliance">>)
    THEN <<a.complianceRule, Get(a.complianceRule, "resource"), Get(a.complianceRule, "dql")>>
    ELSE <<a.statusRule, Get(a.statusRule, "status")>>

RequiredAbsent(a) ==
    \E n \in DOMAIN RequiredFields(a) : RequiredFields(a)[n].t = "undefined"

RequiredAbsentOrEmpty(a) ==
    \E n \in DOMAIN RequiredFields(a) :
        \/ RequiredFields(a)[n].t = "undefined"
        \/ RequiredFields(a)[n] = Str(<<>>)

ExpectedMutation(a) ==
    IF a.gateType = Str(<<"metric">>) THEN "addAutomatedMetricRule"
    ELSE IF a.gateType = Str(<<"compliance">>) THEN "addComplianceRule"
    ELSE "addStatusRule"

\* C6 as stated: a metric, compliance or status gate invocation that has run
\* its validation ended in a validation error exactly when a required field
\* is absent, and otherwise sent the create-rule mutation of its gate type
C6_Original ==
    \A i \in Invocations :
        (IsNonManualGate(i) /\ pc[i] # "idle") =>
            /\ IsErrorOutput(i, "validation") <=> RequiredAbsent(calls[i].args)
            /\ ~RequiredAbsent(calls[i].args) =>
                  /\ Len(reqs[i]) >= 1
                  /\ QueryOf(reqs[i][1]) = ExpectedMutation(calls[i].args)

\* C6 amended: a metric, compliance or status gate invocation that has run
\* its validation ended in a validation error exactly when a required field
\* is absent or an empty string, and otherwise sent the create-rule mutation
\* of its gate type as its first request
C6_RequiredFields ==
    \A i \in Invocations :
        (IsNonManualGate(i) /\ pc[i] # "idle") =>
            /\ IsErrorOutput(i, "validation") <=> RequiredAbsentOrEmpty(calls[i].args)
            /\ RequiredAbsentOrEmpty(calls[i].args) => reqs[i] = <<>>
            /\ ~RequiredAbsentOrEmpty(calls[i].args) =>
                  /\ Len(reqs[i]) >= 1
                  /\ QueryOf(reqs[i][1]) = ExpectedMutation(calls[i].args)
                  /\ pc[i] = "awaitCreate" => Len(reqs[i]) = 1

C6_Witness ==
    \E i \in Invocations :
        /\ GateTypeIs(i, "status")
        /\ Get(calls[i].args.statusRule, "status") = Str(<<>>)
        /\ pc[i] = "done"
        /\ IsErrorOutput(i, "validation")
        /\ reqs[i] = <<>>

\* C7: a gate invocation whose gateType is none of manual, metric,
\* compliance, status ends, once its handler has run, in the validation error
\* "Unsupported gateType" with no request sent
C7_UnsupportedGateType ==
    \A i \in Invocations :
        (/\ IsGate(i)
         /\ ~GateTypeIs(i, "manual")
         /\ ~IsNonManualGate(i)
         /\ pc[i] # "idle") =>
            /\ pc[i] = "done"
            /\ output[i] = Text("Error adding gate: ", ValidationError("Unsupported gateType"))
            /\ reqs[i] = <<>>

C7_Witness ==
    \E i \in Invocations :
        /\ GateTypeIs(i, "deploy")
        /\ pc[i] = "done"
        /\ IsErrorOutput(i, "validation")
        /\ reqs[i] = <<>>

\* C8: when the create-rule request of a gate invocation returned a rule id
\* and its attach request failed with a transport or GraphQL error, the
\* invocation has sent those two requests and no other, the rule exists in
\* the remote service and no remote gate holds it, and once the handler has
\* seen the failure it is done and its output carries that failure
C8_NoCompensation ==
    \A i \in Invocations :
        (/\ IsGate(i)
         /\ Len(resps[i]) = 2
         /\ CreateReturned(i, ruleId[i])
         /\ IsFailure(resps[i][2])) =>
            /\ Len(reqs[i]) = 2
            /\ QueryOf(reqs[i][1]) \in RuleMutations
            /\ QueryOf(reqs[i][2]) = "upsertPipelineGate"
            /\ ruleId[i] \in remoteRules
            /\ \A g \in remoteGates : \A n \in DOMAIN g.f.rules.e : g.f.rules.e[n] # ruleId[i]
            /\ Consumed(i, 2) =>
                  /\ pc[i] = "done"
                  /\ output[i] = Text("Error adding gate: ", FailureOf(resps[i][2]))

C8_Witness ==
    \E i \in Invocations :
        /\ IsGate(i)
        /\ pc[i] = "done"
        /\ Len(resps[i]) = 2
        /\ CreateReturned(i, ruleId[i])
        /\ IsFailure(resps[i][2])
        /\ IsErrorOutput(i, "http")
        /\ Len(reqs[i]) = 2
        /\ ruleId[i] \in remoteRules
        /\ remoteGates = {}

\* the rule id a fetch outcome carries under the root field of request req,
\* undefined when it carries none
ResponseRuleId(resp, req) ==
    IF resp.kind = "http" /\ resp.ok /\ resp.json
    THEN Get(Get(Get(resp.body, "data"), QueryOf(req)), "_id")
    ELSE Undefined

\* C9: an upsertPipelineGate request of an invocation is its second request,
\* carries the pipelineId and stageId of its own call and, as ruleIds, the one
\* rule id that the outcome of its own create-rule request carries; it never
\* carries a rule id that the outcome of a request of another invocation
\* carries
C9_OwnRuleId ==
    \A i \in Invocations : \A n \in DOMAIN reqs[i] :
        QueryOf(reqs[i][n]) = "upsertPipelineGate" =>
            /\ n = 2
            /\ Len(resps[i]) >= 1
            /\ Get(VariablesOf(reqs[i][n]), "pipelineId") = calls[i].args.pipelineId
            /\ Get(VariablesOf(reqs[i][n]), "stageId") = calls[i].args.stageId
            /\ ResponseRuleId(resps[i][1], reqs[i][1]).t = "string" =>
                  Get(VariablesOf(reqs[i][n]), "ruleIds") =
                      Arr(<<ResponseRuleId(resps[i][1], reqs[i][1])>>)
            /\ \A j \in Invocations \ {i} : \A m \in DOMAIN resps[j] :
                  ResponseRuleId(resps[j][m], reqs[j][m]).t = "string" =>
                      Get(VariablesOf(reqs[i][n]), "ruleIds") #
                          Arr(<<ResponseRuleId(resps[j][m], reqs[j][m])>>)

\* two invocations in flight together, answered in the opposite order of
\* their numbers, each holding its own rule id in its attach request
C9_Witness ==
    /\ pc[1] = "awaitAttach"
    /\ pc[2] = "awaitAttach"
    /\ calls[1] = calls[2]
    /\ ruleId[1] = Str(<<"r", "i", "i">>)
    /\ ruleId[2] = Str(<<"r", "i">>)
    /\ Get(VariablesOf(reqs[1][2]), "ruleIds") = Arr(<<ruleId[1]>>)
    /\ Get(VariablesOf(reqs[2][2]), "ruleIds") = Arr(<<ruleId[2]>>)

\* C10: every request is one POST to the configured endpoint; an invocation
\* has sent exactly as many requests as it has fetch outcomes and pending
\* fetches, so no outcome leads to a repeat; a one-request tool that has
\* started has sent exactly one request and a gate invocation at most two
C10_OneRequestPerCall ==
    \A i \in Invocations :
        /\ \A n \in DOMAIN reqs[i] :
              reqs[i][n].method = "POST" /\ reqs[i][n].url = config.graphqlUrl
        /\ Len(reqs[i]) = Len(resps[i]) + (IF inflight[i] # None THEN 1 ELSE 0)
        /\ (IsSimple(i) /\ pc[i] # "idle") => Len(reqs[i]) = 1
        /\ IsGate(i) => Len(reqs[i]) <= 2
        /\ (IsGate(i) /\ pc[i] = "awaitCreate") => Len(reqs[i]) = 1
        /\ (IsGate(i) /\ pc[i] = "awaitAttach") => Len(reqs[i]) = 2

C10_Witness ==
    \E i \in Invocations :
        /\ IsSimple(i)
        /\ pc[i] = "done"
        /\ Len(resps[i]) = 1
        /\ IsFailure(resps[i][1])
        /\ Len(reqs[i]) = 1
        /\ output[i].prefix = "Error retrieving access key metadata: "

\* C11: a response whose status is outside the 2xx range (300 and above in
\* particular) makes the request fail with a transport error that carries
\* exactly that status code and the raw text of the response body; the
\* handler that awaited it sends nothing more and returns that failure
C11_NonOkIsTransportError ==
    \A i \in Invocations : \A n \in DOMAIN resps[i] :
        LET resp == resps[i][n]
        IN  (resp.kind = "http" /\ (resp.status < 200 \/ resp.status >= 300)
                /\ Consumed(i, n)) =>
                /\ pc[i] = "done"
                /\ Len(reqs[i]) = n
                /\ output[i] # None
                /\ output[i].detail =
                      [kind |-> "http", status |-> resp.status, text |-> resp.text]

C11_Witness ==
    \E i \in Invocations :
        /\ resps[i] # <<>>
        /\ resps[i][1].kind = "http"
        /\ resps[i][1].status = 300
        /\ Consumed(i, 1)
        /\ output[i] # None
        /\ output[i].detail =
              [kind |-> "http", status |-> 300, text |-> <<"Multiple Choices">>]

\* a 2xx response whose body parsed to a JSON object
IsJsonObject2xx(resp) ==
    /\ resp.kind = "http"
    /\ resp.status >= 200 /\ resp.status < 300
    /\ resp.json
    /\ resp.body.t = "object"

\* the body holds an errors array with at least one element
HasNonEmptyErrors(resp) ==
    /\ "errors" \in DOMAIN resp.body.f
    /\ resp.body.f.errors.t = "array"
    /\ resp.body.f.errors.e # <<>>

\* the handler returned the text of a GraphQL failure
IsGraphQLErrorOutput(i) ==
    /\ output[i] # None
    /\ "kind" \in DOMAIN output[i].detail
    /\ output[i].detail.kind = "graphql"

\* C12: a 2xx response whose body holds a non-empty errors array makes the
\* request fail with a GraphQL error whose detail is that array, unchanged,
\* whether or not the body holds a data field as well
C12_ErrorsArrayCarried ==
    \A i \in Invocations : \A n \in DOMAIN resps[i] :
        LET resp == resps[i][n]
        IN  (IsJsonObject2xx(resp) /\ HasNonEmptyErrors(resp) /\ Consumed(i, n)) =>
                /\ pc[i] = "done"
                /\ Len(reqs[i]) = n
                /\ output[i] # None
                /\ output[i].detail = [kind |-> "graphql", errors |-> resp.body.f.errors]

C12_Witness ==
    \E i \in Invocations :
        /\ resps[i] # <<>>
        /\ IsJsonObject2xx(resps[i][1])
        /\ HasNonEmptyErrors(resps[i][1])
        /\ "data" \in DOMAIN resps[i][1].body.f
        /\ Consumed(i, 1)
        /\ IsGraphQLErrorOutput(i)
        /\ Len(output[i].detail.errors.e) = 2

\* C13: for a 2xx response with a JSON object body, the request fails with
\* a GraphQL error exactly when the errors array is non-empty; with no
\* errors field, or an empty one, it returns the content of the data field
C13_GraphQLErrorIffNonEmpty ==
    \A i \in Invocations : \A n \in DOMAIN resps[i] :
        LET resp == resps[i][n]
            res == ExecuteGraphQLResult(resp)
        IN  (IsJsonObject2xx(resp) /\ Consumed(i, n)) =>
                /\ (res.threw /\ res.error.kind = "graphql") <=> HasNonEmptyErrors(resp)
                /\ ~HasNonEmptyErrors(resp) =>
                      /\ ~res.threw
                      /\ res.value = Get(resp.body, "data")
                      /\ ~IsGraphQLErrorOutput(i)

\* the credential holds one of the two session-cookie markers
HoldsMarker(credential) ==
    \E k \in 1 .. Len(credential) :
        credential[k] = "VelocitySession=" \/ credential[k] = "SecurityApiSession="

\* C14: the credential is taken for a session cookie (the request carries a
\* Cookie header) exactly when it holds VelocitySession= or
\* SecurityApiSession=, and for an access key (the request carries an
\* Authorization header) in every other case; every request of the process
\* is classified the same way
C14_ClassificationIff ==
    \A i \in Invocations : \A n \in DOMAIN reqs[i] :
        LET h == reqs[i][n].headers
        IN  /\ "Cookie" \in DOMAIN h <=> HoldsMarker(config.accessToken)
            /\ "Authorization" \in DOMAIN h <=> ~HoldsMarker(config.accessToken)

C14_Witness ==
    /\ config # None
    /\ config.accessToken = <<"x", "SecurityApiSession=", "s">>
    /\ \E i \in Invocations :
          /\ reqs[i] # <<>>
          /\ "Cookie" \in DOMAIN reqs[i][1].headers

ToolErrorPrefix(i) ==
    IF IsGate(i) THEN "Error adding gate: "
    ELSE IF IsSimple(i) THEN "Error retrieving access key metadata: "
    ELSE ErrorPrefix(calls[i].tool)

\* the handler returned a text that reports an error
IsErrorText(i) ==
    /\ output[i] # None
    /\ output[i].type = "text"
    /\ output[i].prefix = ToolErrorPrefix(i)
    /\ "kind" \in DOMAIN output[i].detail

\* the request failed in transport or with GraphQL errors, or its body
\* cannot be parsed
IsRequestFailure(resp) ==
    \/ IsFailure(resp)
    \/ resp.kind = "http" /\ resp.status >= 200 /\ resp.status < 300 /\ ~resp.json

\* a parsed 2xx body without a data object
LacksData(resp) ==
    /\ resp.kind = "http" /\ resp.status >= 200 /\ resp.status < 300 /\ resp.json
    /\ \/ resp.body.t # "object"
       \/ /\ "errors" \notin DOMAIN resp.body.f
          /\ Get(resp.body, "data").t \in {"undefined", "null"}

\* a parsed 2xx body whose data object lacks the root field of the request
LacksField(resp, req) ==
    /\ IsJsonObject2xx(resp)
    /\ "errors" \notin DOMAIN resp.body.f
    /\ Get(resp.body, "data").t = "object"
    /\ QueryOf(req) \notin DOMAIN resp.body.f.data.f

Settings ==
    { <<"--url", "graphqlUrl", "VELOCITY_GRAPHQL_URL">>,
      <<"--token", "accessToken", "VELOCITY_ACCESS_TOKEN">>,
      <<"--tenant-id", "tenantId", "VELOCITY_TENANT_ID">> }

\* the configuration has been resolved and the process goes on
IsConfigured == main \in {"connecting", "serving"}

\* the positions of the command line where the option is followed by a value
GivenAt(option) ==
    {k \in 1 .. Len(argv) - 1 : argv[k] = Str(<<option>>)}

\* the positions where the option opens a pair of arguments, counted in
\* twos from the first argument
PairAt(option) ==
    {k \in 1 .. Len(argv) : argv[k] = Str(<<option>>) /\ k % 2 = 1}

Greatest(S) == CHOOSE k \in S : \A m \in S : m <= k

\* the value read for the option: that of its last pair, if it has one
PairValue(option) ==
    IF PairAt(option) = {} \/ Greatest(PairAt(option)) = Len(argv) THEN Undefined
    ELSE argv[Greatest(PairAt(option)) + 1]

\* C17 as stated: an option that is given a value on the command line
\* resolves to that value, whatever the environment holds; an option that
\* is not given resolves to the environment variable
C17_Original ==
    IsConfigured =>
        \A o \in Settings :
            IF GivenAt(o[1]) # {}
            THEN config[o[2]] = argv[Greatest(GivenAt(o[1])) + 1].v
            ELSE config[o[2]] = environ[o[3]].v

\* C17, amended: the arguments are read as option/value pairs from the
\* first argument on; an option whose last pair holds a non-empty value
\* resolves to that value, whatever the environment holds, and any other
\* option resolves to the environment variable
C17_CliPrecedence ==
    IsConfigured =>
        \A o \in Settings :
            LET value == PairValue(o[1])
            IN  IF value.t = "string" /\ value.v # <<>>
                THEN config[o[2]] = value.v
                ELSE config[o[2]] = environ[o[3]].v

C17_Witness ==
    /\ main = "serving"
    /\ argv = <<Str(<<"--url">>), Str(<<"cli">>)>>
    /\ environ.VELOCITY_GRAPHQL_URL = Str(<<"https://velocity/graphql">>)
    /\ config.graphqlUrl = <<"cli">>
    /\ config.tenantId = <<"tenant-1">>
    /\ \E i \in Invocations : reqs[i] # <<>> /\ reqs[i][1].url = <<"cli">>

IsNonEmptyString(v) == v.t = "string" /\ v.v # <<>>

\* neither the command line nor the environment gives the setting a value
ResolvesToNothing(o) ==
    /\ ~IsNonEmptyString(PairValue(o[1]))
    /\ ~IsNonEmptyString(environ[o[3]])

\* C18: when one of the three settings resolves to nothing, the top-level
\* code ends the process with a configuration error; in that process no
\* tool is registered, no request is sent and no handler runs; wherever a
\* tool is registered or a handler has run, all three settings are non-empty
C18_FatalBeforeRegistration ==
    /\ (main # "start" /\ \E o \in Settings : ResolvesToNothing(o)) => main = "failed"
    /\ main = "failed" =>
          /\ fatal # None
          /\ fatal.kind = "config"
          /\ registered = {}
          /\ \A i \in Invocations :
                /\ pc[i] = "idle"
                /\ reqs[i] = <<>>
                /\ inflight[i] = None
                /\ output[i] = None
    /\ (registered # {} \/ \E i \in Invocations : pc[i] # "idle" \/ reqs[i] # <<>>) =>
          /\ config # None
          /\ \A o \in Settings : config[o[2]] # <<>>

C18_Witness ==
    /\ main = "failed"
    /\ argv = <<>>
    /\ environ.VELOCITY_GRAPHQL_URL # Undefined
    /\ environ.VELOCITY_ACCESS_TOKEN # Undefined
    /\ environ.VELOCITY_TENANT_ID = Undefined
    /\ fatal = ConfigurationError("Tenant ID is required.")
    /\ calls[1] = SimpleCall
    /\ registered = {}

\* the six tools whose input has an optional tenantId
HasOptionalTenantId(i) ==
    calls[i].tool \in {"get_pipelines_by_tenant", "get_workflows_for_tenant",
                        "get_issues", "get_teams_by_tenant", "create_team",
                        "get_integrations_by_tenant"}

\* the tenantId among the variables of a request of such a tool
SentTenantId(i, n) ==
    IF calls[i].tool = "get_issues"
    THEN Get(Get(VariablesOf(reqs[i][n]), "filter"), "tenantId")
    ELSE Get(VariablesOf(reqs[i][n]), "tenantId")

\* C19: a tool with an optional tenantId sends the tenantId it was given
\* when it was given one, the configured tenant id when the input has none,
\* and in no case an empty or missing tenantId
C19_TenantIdDefault ==
    \A i \in Invocations :
        HasOptionalTenantId(i) =>
            /\ pc[i] # "idle" => Len(reqs[i]) = 1
            /\ \A n \in DOMAIN reqs[i] :
                  LET supplied == calls[i].args.tenantId
                      sent == SentTenantId(i, n)
                  IN  /\ IsNonEmptyString(supplied) => sent = supplied
                      /\ supplied = Undefined => sent = Str(config.tenantId)
                      /\ IsNonEmptyString(sent)

C19_Witness ==
    \E i \in Invocations :
        /\ calls[i].tool = "get_issues"
        /\ calls[i].args.tenantId = Undefined
        /\ Len(reqs[i]) = 1
        /\ SentTenantId(i, 1) = Str(<<"tenant-1">>)
        /\ pc[i] = "done"

\* C20: of two gate invocations with identical input each sends its own
\* create-rule request, the same request twice; when both were carried out
\* the two rules are distinct remote objects, and each invocation goes on
\* with the rule id of its own response in its own attach request
C20_NoDeduplication ==
    \A i \in Invocations : \A j \in Invocations \ {i} :
        (IsGate(i) /\ calls[i] = calls[j]) =>
            /\ (pc[i] # "idle" /\ reqs[j] # <<>>) =>
                  /\ reqs[i] # <<>>
                  /\ QueryOf(reqs[i][1]) \in RuleMutations
                  /\ reqs[i][1] = reqs[j][1]
            /\ \A ri \in RuleIdValues : \A rj \in RuleIdValues :
                  (CreateReturned(i, ri) /\ CreateReturned(j, rj)) =>
                      /\ ri # rj
                      /\ {ri, rj} \subseteq remoteRules
                      /\ Consumed(i, 1) =>
                            /\ ruleId[i] = ri
                            /\ Len(reqs[i]) = 2
                            /\ QueryOf(reqs[i][2]) = "upsertPipelineGate"
                            /\ Get(VariablesOf(reqs[i][2]), "ruleIds") = Arr(<<ri>>)

C20_Witness ==
    /\ calls[1] = calls[2]
    /\ IsGate(1)
    /\ pc[1] = "done"
    /\ pc[2] = "done"
    /\ ruleId[1] # ruleId[2]
    /\ {ruleId[1], ruleId[2]} \subseteq remoteRules
    /\ Cardinality(remoteGates) = 2
    /\ reqs[1][1] = reqs[2][1]

\* C21: a termination signal ends the process from every state it can be
\* in; from then on nothing happens: no request is sent, no handler goes on
\* (a pending attach step included) and no fetch settles
C21_SignalExits ==
    /\ [](signals /\ main \in {"start", "connecting", "serving"} => ENABLED Signal)
    /\ [][main = "exited" =>
            /\ main' = "exited"
            /\ reqs' = reqs
            /\ pc' = pc
            /\ inflight' = inflight
            /\ output' = output]_vars

\* the process ended while the successful outcome of a create-rule request
\* waited for its handler: the attach request was never sent
C21_Witness ==
    \E i \in Invocations :
        /\ main = "exited"
        /\ pc[i] = "awaitCreate"
        /\ arrived[i] # None
        /\ \E r \in RuleIdValues : CreateReturned(i, r)
        /\ Len(reqs[i]) = 1

PassesValidation(a) ==
    \/ a.gateType = Str(<<"manual">>) /\ ManualAcceptable(a)
    \/ /\ \E gt \in NonManualTypes : a.gateType = Str(<<gt>>)
       /\ ~RequiredAbsentOrEmpty(a)

\* the outcome of a create-rule request is a success that carries a rule
CreateSucceeded(resp, req) ==
    /\ IsJsonObject2xx(resp)
    /\ "errors" \notin DOMAIN resp.body.f
    /\ Get(Get(resp.body, "data"), QueryOf(req)).t = "object"

\* C23: a gate invocation sends at most two requests, the create-rule
\* mutation first and upsertPipelineGate second, none unless its input
\* passes validation; the attach request is sent one step at a time, by
\* the handler that holds the successful outcome of its create-rule request
C23_StrictOrder ==
    /\ [](\A i \in Invocations :
            IsGate(i) =>
                /\ Len(reqs[i]) <= 2
                /\ reqs[i] # <<>> =>
                      /\ PassesValidation(calls[i].args)
                      /\ QueryOf(reqs[i][1]) \in RuleMutations
                /\ Len(reqs[i]) = 2 =>
                      /\ QueryOf(reqs[i][2]) = "upsertPipelineGate"
                      /\ Consumed(i, 1)
                      /\ CreateSucceeded(resps[i][1], reqs[i][1]))
    /\ [][\A i \in Invocations :
            (IsGate(i) /\ reqs'[i] # reqs[i]) =>
                /\ Len(reqs'[i]) = Len(reqs[i]) + 1
                /\ IF reqs[i] = <<>>
                   THEN pc[i] = "idle" /\ resps[i] = <<>>
                   ELSE /\ pc[i] = "awaitCreate"
                        /\ Len(resps[i]) = 1
                        /\ arrived[i] = resps[i][1]
                        /\ CreateSucceeded(resps[i][1], reqs[i][1])]_vars

C23_Witness ==
    \E i \in Invocations :
        /\ GateTypeIs(i, "compliance")
        /\ Len(reqs[i]) = 2
        /\ QueryOf(reqs[i][1]) = "addComplianceRule"
        /\ QueryOf(reqs[i][2]) = "upsertPipelineGate"
        /\ Len(resps[i]) = 2
        /\ pc[i] = "done"

\* C24: the status is looked at before the body: a non-2xx response whose
\* body is JSON with a non-empty errors array ends in a transport error with
\* the status and the raw body text, never in a GraphQL error
C24_StatusBeforeBody ==
    \A i \in Invocations : \A n \in DOMAIN resps[i] :
        LET resp == resps[i][n]
        IN  (/\ resp.kind = "http"
             /\ (resp.status < 200 \/ resp.status >= 300)
             /\ resp.json
             /\ HasNonEmptyErrors(resp)
             /\ Consumed(i, n)) =>
                /\ ~IsGraphQLErrorOutput(i)
                /\ IsErrorText(i)
                /\ output[i].detail.kind = "http"
                /\ output[i].detail.status = resp.status
                /\ output[i].detail.text = resp.text
                /\ "errors" \notin DOMAIN output[i].detail

C24_Witness ==
    \E i \in Invocations :
        /\ IsGate(i)
        /\ Len(resps[i]) = 2
        /\ resps[i][2].kind = "http"
        /\ resps[i][2].status = 400
        /\ HasNonEmptyErrors(resps[i][2])
        /\ Consumed(i, 2)
        /\ IsErrorText(i)
        /\ output[i].detail.kind = "http"

\* C25: the ruleIds of every upsertPipelineGate request is a list of one
\* identifier, a string, which is the _id of the rule in the outcome of the
\* create-rule request; an outcome without a rule or without an _id leads
\* to no upsertPipelineGate request
C25_RuleIdDefined ==
    \A i \in Invocations : \A n \in DOMAIN reqs[i] :
        QueryOf(reqs[i][n]) = "upsertPipelineGate" =>
            LET ids == Get(VariablesOf(reqs[i][n]), "ruleIds")
            IN  /\ ids.t = "array"
                /\ Len(ids.e) = 1
                /\ ids.e[1].t = "string"
                /\ Len(resps[i]) >= 1
                /\ ids.e[1] = ResponseRuleId(resps[i][1], reqs[i][1])

\* the steps of a gate invocation, in their order
StepRank(p) ==
    CASE p = "idle" -> 0
      [] p = "awaitCreate" -> 1
      [] p = "awaitAttach" -> 2
      [] p = "done" -> 3

\* the terminal state of a gate invocation is one of the four of the state
\* machine, told apart by what was sent and what came back
IsTerminalShape(i) ==
    \/ /\ reqs[i] = <<>>
       /\ IsErrorText(i) /\ output[i].detail.kind = "validation"
    \/ /\ Len(reqs[i]) = 1 /\ Len(resps[i]) = 1
       /\ IsErrorText(i) /\ output[i].detail.kind # "validation"
    \/ /\ Len(reqs[i]) = 2 /\ Len(resps[i]) = 2
       /\ IsErrorText(i) /\ output[i].detail.kind # "validation"
    \/ /\ Len(reqs[i]) = 2 /\ Len(resps[i]) = 2
       /\ output[i].type = "text"
       /\ output[i].prefix = "Gate added to pipeline stage: "

\* C26: when every fetch settles and the process is not ended by a signal,
\* a gate invocation that has started reaches done; it is done exactly when
\* it has returned its one response, in one of the four terminal states;
\* its steps never go back and a returned response never changes
C26_GateTerminates ==
    /\ \A i \in Invocations :
          (IsGate(i) /\ pc[i] # "idle") ~> (pc[i] = "done" \/ main = "exited")
    /\ [](\A i \in Invocations :
            IsGate(i) =>
                /\ pc[i] = "done" <=> output[i] # None
                /\ pc[i] = "done" => IsTerminalShape(i))
    /\ [][\A i \in Invocations :
            IsGate(i) =>
                /\ StepRank(pc'[i]) >= StepRank(pc[i])
                /\ pc[i] = "done" =>
                      /\ output'[i] = output[i]
                      /\ reqs'[i] = reqs[i]]_vars

C26_Witness ==
    \E i \in Invocations :
        /\ GateTypeIs(i, "metric")
        /\ pc[i] = "done"
        /\ Len(resps[i]) = 2
        /\ IsFailure(resps[i][2])
        /\ IsErrorText(i)

\* C27: once set at startup, the endpoint, the credential and the tenant
\* id never change, whatever the invocations do; all requests of a process
\* go to that endpoint with the same authentication header, built from that
\* credential
C27_ConfigFrozen ==
    /\ [][config # None => config' = config]_vars
    /\ [](\A i \in Invocations : \A n \in DOMAIN reqs[i] :
            /\ reqs[i][n].url = config.graphqlUrl
            /\ \/ /\ "Cookie" \in DOMAIN reqs[i][n].headers
                  /\ reqs[i][n].headers.Cookie = config.accessToken
               \/ /\ "Authorization" \in DOMAIN reqs[i][n].headers
                  /\ Tail(reqs[i][n].headers.Authorization) = config.accessToken
            /\ \A j \in Invocations : \A m \in DOMAIN reqs[j] :
                  reqs[j][m].headers = reqs[i][n].headers)

\* two invocations together, one failed and one carried out: the first
\* request and the last carry the same headers
C27_Witness ==
    /\ pc[1] = "done"
    /\ pc[2] = "done"
    /\ IsErrorText(1)
    /\ Len(resps[1]) = 1
    /\ output[2] # None
    /\ output[2].prefix = "Gate added to pipeline stage: "
    /\ reqs[1][1].headers = reqs[2][2].headers
    /\ reqs[2][2].headers.Authorization = <<"UserAccessKey ">> \o config.accessToken

\* C28: every tool of the catalog is registered before the server is
\* connected to its transport: from the call of server.connect on, the
\* registered tools are the whole catalog
C28_CatalogBeforeConnect ==
    main \in {"connecting", "serving"} => registered = EarlyTools \cup LateTools

\* the pagination among the variables of a request of a paged tool
SentPagination(i, n) ==
    IF calls[i].tool = "get_particles_by_stage"
    THEN VariablesOf(reqs[i][n])
    ELSE Get(VariablesOf(reqs[i][n]), "query")

\* C29: the request of a paged tool holds a pagination object exactly when
\* skip or limit was supplied, zero included; the object holds the supplied
\* values and nothing else
C29_PaginationIffSupplied ==
    \A i \in Invocations :
        calls[i].tool \in PagedTools =>
            \A n \in DOMAIN reqs[i] :
                LET a == calls[i].args
                    supplied == {k \in {"skip", "limit"} : a[k].t # "undefined"}
                    holder == SentPagination(i, n)
                IN  /\ "pagination" \in DOMAIN holder.f <=> supplied # {}
                    /\ "pagination" \in DOMAIN holder.f =>
                          /\ DOMAIN holder.f.pagination.f = supplied
                          /\ \A k \in supplied : holder.f.pagination.f[k] = a[k]

\* a skip of zero alone was supplied to get_build_data, and the request
\* holds a pagination with that skip and no limit
C29_Witness ==
    /\ calls[1].tool = "get_build_data"
    /\ calls[1].args.skip = Num(0)
    /\ calls[1].args.limit = Undefined
    /\ pc[1] = "done"
    /\ Len(reqs[1]) = 1
    /\ Get(Get(VariablesOf(reqs[1][1]), "query"), "pagination") = Obj([skip |-> Num(0)])

\* C30: the filter of a get_issues request holds a numeric skip and limit:
\* the supplied skip, or 0 when it was omitted; the supplied limit, a limit
\* of 0 included, or 100 when it was omitted
C30_SuppliedLimitSent ==
    \A i \in Invocations :
        calls[i].tool = "get_issues" =>
            \A n \in DOMAIN reqs[i] :
                LET a == calls[i].args
                    filter == Get(VariablesOf(reqs[i][n]), "filter")
                IN  /\ Get(filter, "skip") =
                          IF a.skip.t = "undefined" THEN Num(0) ELSE a.skip
                    /\ Get(filter, "limit") =
                          IF a.limit.t = "undefined" THEN Num(100) ELSE a.limit

====
